---- MODULE Spec2Model ----
(***************************************************************************)
(* The network behaviour of mothra (core/network/src/behaviour/mod.rs) and *)
(* its RPC sub-behaviour (core/network/src/rpc/mod.rs): the composite poll, *)
(* the dispatch of RPC, gossip and identify events, the pending-disconnect *)
(* queue and the shared subscription set.                                  *)
(***************************************************************************)
EXTENDS Integers, Sequences, FiniteSets

VARIABLES
    gossipsub,        \* actions the gossipsub sub-behaviour will yield when polled
    gs_topics,        \* topics the gossipsub engine is subscribed to
    mothra_rpc,       \* RPC.events: the RPC behaviour's action queue
    identify,         \* actions the identify sub-behaviour will yield when polled
    peer_manager,     \* events the peer manager stream will yield when polled
    events,           \* Behaviour.events: the public event queue
    peers_to_dc,      \* Behaviour.peers_to_dc: the pending-disconnect queue
    meta_data,        \* Behaviour.meta_data
    ping_data,        \* Behaviour.ping_data
    network_globals,  \* the shared NetworkGlobals record
    pm_calls,         \* calls made on the peer manager by the latest operation
    ret,              \* what the latest operation returned to its caller
    handed,           \* the requests the swarm has delivered to the peers' handlers
    seen_gossip_messages  \* Behaviour.seen_gossip_messages: the cached ids, oldest use first

vars == <<gossipsub, gs_topics, mothra_rpc, identify, peer_manager, events,
          peers_to_dc, meta_data, ping_data, network_globals, pm_calls, ret, handed,
          seen_gossip_messages>>

-----------------------------------------------------------------------------
(* Bounds of the model and the sets the inputs are drawn from. *)

MaxQueued == 2
MaxDisconnectQueued == 3

PeerIds == {"P", "Q"}
ConnectionIds == {1, 2}
SubstreamIds == {7, 9}
Payloads == {<<17>>, <<170>>}
Topics == {"blocks", "attestations"}
MessageIds == {"m1", "m2"}
Addresses == {"addr1"}
Protocols == {"Status", "Goodbye"}
RPCErrors == {"HandlerRejected", "StreamTimeout"}
ErrorCodes == {"InvalidRequest", "ServerError"}

\* RequestId::Behaviour, the id of requests the behaviour issues itself.
Behaviour == "Behaviour"
RequestIds == {Behaviour, "42"}

-----------------------------------------------------------------------------
(* Values: the enums of rpc/mod.rs and behaviour/mod.rs as records. *)

Ping(data) == [method |-> "Ping", data |-> data]
MetaDataRequest == [method |-> "MetaData"]
Goodbye(data) == [method |-> "Goodbye", data |-> data]
Status(data) == [method |-> "Status", data |-> data]

Pong(data) == [resp |-> "Pong", data |-> data]
MetaDataResponse(data) == [resp |-> "MetaData", data |-> data]
StatusResponse(data) == [resp |-> "Status", data |-> data]

Success(response) == [coded |-> "Success", response |-> response]
from_error_code(code, reason) == [coded |-> "Error", code |-> code, reason |-> reason]

\* RPCSend
SendRequest(id, request) == [send |-> "Request", id |-> id, request |-> request]
SendResponse(substream_id, response) ==
    [send |-> "Response", substream_id |-> substream_id, response |-> response]

\* RPCReceived and HandlerErr, the two sides of RPCMessage.event
ReceivedRequest(substream_id, request) ==
    [ok |-> TRUE, received |-> "Request", substream_id |-> substream_id, request |-> request]
ReceivedResponse(id, response) ==
    [ok |-> TRUE, received |-> "Response", id |-> id, response |-> response]
Inbound(substream_id, proto, error) ==
    [ok |-> FALSE, dir |-> "Inbound", substream_id |-> substream_id, proto |-> proto, error |-> error]
Outbound(id, proto, error) ==
    [ok |-> FALSE, dir |-> "Outbound", id |-> id, proto |-> proto, error |-> error]

RPCMessage(peer_id, conn_id, event) ==
    [peer_id |-> peer_id, conn_id |-> conn_id, event |-> event]

\* NotifyHandler targets
Any == [target |-> "Any"]
All == [target |-> "All"]
One(conn_id) == [target |-> "One", conn_id |-> conn_id]

\* NetworkBehaviourAction
NotifyHandler(peer_id, handler, event) ==
    [action |-> "NotifyHandler", peer_id |-> peer_id, handler |-> handler, event |-> event]
GenerateEvent(event) == [action |-> "GenerateEvent", event |-> event]
DialPeer(peer_id, condition) ==
    [action |-> "DialPeer", peer_id |-> peer_id, condition |-> condition]
DialAddress(address) == [action |-> "DialAddress", address |-> address]
ReportObservedAddr(address) == [action |-> "ReportObservedAddr", address |-> address]
Pending == [action |-> "Pending"]
\* What a call other than poll returns, and the absence of a call
Returned(value) == [action |-> "Returned", value |-> value]
NoCall == [action |-> "NoCall"]

\* BehaviourHandlerIn
Delegate(to, event) == [handler_in |-> "Delegate", to |-> to, event |-> event]
None == [some |-> FALSE]
Some(id, request) == [some |-> TRUE, id |-> id, request |-> request]
Shutdown(goodbye) == [handler_in |-> "Shutdown", goodbye |-> goodbye]

\* BehaviourEvent
RPCFailed(id, peer_id, error) ==
    [kind |-> "RPCFailed", id |-> id, peer_id |-> peer_id, error |-> error]
RequestReceived(peer_id, peer_request_id, request) ==
    [kind |-> "RequestReceived", peer_id |-> peer_id,
     peer_request_id |-> peer_request_id, request |-> request]
ResponseReceived(peer_id, id, response) ==
    [kind |-> "ResponseReceived", peer_id |-> peer_id, id |-> id, response |-> response]
PubsubMessage(id, source, topics, message) ==
    [kind |-> "PubsubMessage", message_id |-> id, source |-> source,
     topics |-> topics, message |-> message]
PeerSubscribed(peer_id, topic) ==
    [kind |-> "PeerSubscribed", peer_id |-> peer_id, topic |-> topic]
StatusPeer(peer_id) == [kind |-> "StatusPeer", peer_id |-> peer_id]

\* The public Request and Response types and their conversions
RequestStatus(data) == [request |-> "Status", data |-> data]
RequestGoodbye(data) == [request |-> "Goodbye", data |-> data]
ResponseStatus(data) == [response |-> "Status", data |-> data]

\* A conversion that makes a Status of every request
RPCRequest_from_status_only(req) == Status(req.data)

\* A conversion that makes a Ping of a Goodbye
RPCRequest_from_goodbye_as_ping(req) ==
    IF req.request = "Goodbye" THEN Ping(req.data) ELSE Status(req.data)

RPCRequest_from(req) ==
    IF req.request = "Goodbye" THEN Goodbye(req.data) ELSE Status(req.data)

RPCCodedResponse_from(resp) == Success(StatusResponse(resp.data))

\* GossipsubEvent
GsMessage(source, id, topics, data) ==
    [gs |-> "Message", source |-> source, message_id |-> id, topics |-> topics, data |-> data]
GsSubscribed(peer_id, topic) == [gs |-> "Subscribed", peer_id |-> peer_id, topic |-> topic]
GsUnsubscribed(peer_id, topic) == [gs |-> "Unsubscribed", peer_id |-> peer_id, topic |-> topic]

\* PeerManagerEvent
PmEvent(kind, arg) == [pm |-> kind, arg |-> arg]

\* Calls received by the peer manager
PmCall(fn, peer_id, proto, error) ==
    [fn |-> fn, peer_id |-> peer_id, proto |-> proto, error |-> error]
handle_rpc_error(peer_id, proto, error) == PmCall("handle_rpc_error", peer_id, proto, error)
disconnecting_peer(peer_id) == PmCall("_disconnecting_peer", peer_id, "", "")
peer_statusd(peer_id) == PmCall("peer_statusd", peer_id, "", "")

-----------------------------------------------------------------------------
(* The Behaviour struct as a record, so that its methods are operators from *)
(* the struct before a call to the struct after it.                         *)

Self ==
    [gossipsub |-> gossipsub, mothra_rpc |-> mothra_rpc, identify |-> identify,
     peer_manager |-> peer_manager, events |-> events, peers_to_dc |-> peers_to_dc,
     meta_data |-> meta_data, ping_data |-> ping_data, pm_calls |-> <<>>]

\* A send_response that takes the connection for the substream and the substream
\* for the connection
rpc_send_response_swapped(s, peer_id, id, event) ==
    [s EXCEPT !.mothra_rpc =
        Append(@, NotifyHandler(peer_id, One(id[2]), SendResponse(id[1], event)))]

\* RPC::send_response
rpc_send_response(s, peer_id, id, event) ==
    [s EXCEPT !.mothra_rpc =
        Append(@, NotifyHandler(peer_id, One(id[1]), SendResponse(id[2], event)))]

\* A send_request addressed to every connection of the peer
rpc_send_request_to_all(s, peer_id, request_id, event) ==
    [s EXCEPT !.mothra_rpc =
        Append(@, NotifyHandler(peer_id, All, SendRequest(request_id, event)))]

\* RPC::send_request
rpc_send_request(s, peer_id, request_id, event) ==
    [s EXCEPT !.mothra_rpc =
        Append(@, NotifyHandler(peer_id, Any, SendRequest(request_id, event)))]

\* An inject_connected whose request carries an id of the application
rpc_inject_connected_application_id(s, peer_id) ==
    [s EXCEPT !.mothra_rpc =
        Append(@, NotifyHandler(peer_id, Any, SendRequest("42", MetaDataRequest)))]

\* RPC::inject_connected
rpc_inject_connected(s, peer_id) ==
    [s EXCEPT !.mothra_rpc =
        Append(@, NotifyHandler(peer_id, Any, SendRequest(Behaviour, MetaDataRequest)))]

\* RPC::inject_event
rpc_inject_event(s, peer_id, conn_id, event) ==
    [s EXCEPT !.mothra_rpc = Append(@, GenerateEvent(RPCMessage(peer_id, conn_id, event)))]

\* A call on the peer manager
pm_call(s, call) == [s EXCEPT !.pm_calls = Append(@, call)]

\* Behaviour::ping
ping(s, id, peer_id) == rpc_send_request(s, peer_id, id, Ping(s.ping_data))

\* A pong that answers with the metadata
pong_with_meta_data(s, id, peer_id) ==
    rpc_send_response(s, peer_id, id, Success(Pong(s.meta_data)))

\* A pong that reads the payload from the shared globals
pong_reading_globals(s, id, peer_id) ==
    rpc_send_response(s, peer_id, id, Success(Pong(network_globals.ping_data)))

\* Behaviour::pong
pong(s, id, peer_id) == rpc_send_response(s, peer_id, id, Success(Pong(s.ping_data)))

\* Behaviour::send_meta_data_request
send_meta_data_request(s, peer_id) == rpc_send_request(s, peer_id, Behaviour, MetaDataRequest)

\* A send_meta_data_response that answers with the ping payload
send_meta_data_response_with_ping_data(s, id, peer_id) ==
    rpc_send_response(s, peer_id, id, Success(MetaDataResponse(s.ping_data)))

\* Behaviour::send_meta_data_response
send_meta_data_response(s, id, peer_id) ==
    rpc_send_response(s, peer_id, id, Success(MetaDataResponse(s.meta_data)))

\* A propagate_response that does not test the id
propagate_response_unchecked(s, id, peer_id, response) ==
    [s EXCEPT !.events = Append(@, ResponseReceived(peer_id, id, response))]

\* A propagate_response that takes the peer for the id and the id for the peer
propagate_response_swapped(s, id, peer_id, response) ==
    IF id # Behaviour
    THEN [s EXCEPT !.events = Append(@, ResponseReceived(id, peer_id, response))]
    ELSE s

\* Behaviour::propagate_response
propagate_response(s, id, peer_id, response) ==
    IF id # Behaviour
    THEN [s EXCEPT !.events = Append(@, ResponseReceived(peer_id, id, response))]
    ELSE s

\* A propagate_request that drops the payload of the request
propagate_request_without_payload(s, id, peer_id, request) ==
    [s EXCEPT !.events = Append(@, RequestReceived(peer_id, id, [request EXCEPT !.data = <<>>]))]

\* Behaviour::propagate_request
propagate_request(s, id, peer_id, request) ==
    [s EXCEPT !.events = Append(@, RequestReceived(peer_id, id, request))]

\* An on_gossip_event that drops a message whose id is already in the public queue
on_gossip_event_deduplicating(s, event) ==
    CASE event.gs = "Message" ->
            IF \E i \in DOMAIN s.events :
                  /\ s.events[i].kind = "PubsubMessage"
                  /\ s.events[i].message_id = event.message_id
            THEN s
            ELSE [s EXCEPT !.events =
                     Append(@, PubsubMessage(event.message_id, event.source, event.topics,
                                             event.data))]
      [] event.gs = "Subscribed" ->
            [s EXCEPT !.events = Append(@, PeerSubscribed(event.peer_id, event.topic))]
      [] OTHER -> s

\* Behaviour::on_gossip_event
on_gossip_event(s, event) ==
    CASE event.gs = "Message" ->
            [s EXCEPT !.events =
                Append(@, PubsubMessage(event.message_id, event.source, event.topics, event.data))]
      [] event.gs = "Subscribed" ->
            [s EXCEPT !.events = Append(@, PeerSubscribed(event.peer_id, event.topic))]
      [] OTHER -> s

\* An error arm that reports the failure of every outbound request, whatever its id
on_rpc_error_unchecked(s, peer_id, handler_err) ==
    LET s1 == pm_call(s, handle_rpc_error(peer_id, handler_err.proto, handler_err.error))
    IN  IF handler_err.dir = "Inbound"
        THEN s1
        ELSE [s1 EXCEPT !.events =
                 Append(@, RPCFailed(handler_err.id, peer_id, handler_err.error))]

\* An error arm that absorbs a rejected inbound request without telling the peer manager
on_rpc_error_rejected_dropped(s, peer_id, handler_err) ==
    IF handler_err.dir = "Inbound"
    THEN IF handler_err.error = "HandlerRejected"
         THEN s
         ELSE pm_call(s, handle_rpc_error(peer_id, handler_err.proto, handler_err.error))
    ELSE LET s1 == pm_call(s, handle_rpc_error(peer_id, handler_err.proto, handler_err.error))
         IN  IF handler_err.id # Behaviour
             THEN [s1 EXCEPT !.events =
                      Append(@, RPCFailed(handler_err.id, peer_id, handler_err.error))]
             ELSE s1

\* Behaviour::on_rpc_event, the HandlerErr arm
on_rpc_error(s, peer_id, handler_err) ==
    IF handler_err.dir = "Inbound"
    THEN pm_call(s, handle_rpc_error(peer_id, handler_err.proto, handler_err.error))
    ELSE LET s1 == pm_call(s, handle_rpc_error(peer_id, handler_err.proto, handler_err.error))
         IN  IF handler_err.id # Behaviour
             THEN [s1 EXCEPT !.events =
                      Append(@, RPCFailed(handler_err.id, peer_id, handler_err.error))]
             ELSE s1

\* A request arm that also hands the Goodbye to the application
on_rpc_request_goodbye_propagated(s, peer_id, handler_id, id, request) ==
    LET peer_request_id == <<handler_id, id>> IN
    CASE request.method = "Ping" -> pong(s, peer_request_id, peer_id)
      [] request.method = "MetaData" -> send_meta_data_response(s, <<handler_id, id>>, peer_id)
      [] request.method = "Goodbye" ->
            propagate_request(
                [pm_call(s, disconnecting_peer(peer_id)) EXCEPT !.peers_to_dc = Append(@, peer_id)],
                peer_request_id, peer_id, RequestGoodbye(request.data))
      [] request.method = "Status" ->
            propagate_request(pm_call(s, peer_statusd(peer_id)), peer_request_id, peer_id,
                              RequestStatus(request.data))
      [] OTHER -> s

\* Behaviour::on_rpc_event, the RPCReceived::Request arm
on_rpc_request(s, peer_id, handler_id, id, request) ==
    LET peer_request_id == <<handler_id, id>> IN
    CASE request.method = "Ping" -> pong(s, peer_request_id, peer_id)
      [] request.method = "MetaData" -> send_meta_data_response(s, <<handler_id, id>>, peer_id)
      [] request.method = "Goodbye" ->
            [pm_call(s, disconnecting_peer(peer_id)) EXCEPT !.peers_to_dc = Append(@, peer_id)]
      [] request.method = "Status" ->
            propagate_request(pm_call(s, peer_statusd(peer_id)), peer_request_id, peer_id,
                              RequestStatus(request.data))
      [] OTHER -> s

\* A response arm that hands every response to the application
on_rpc_response_all_propagated(s, peer_id, id, resp) ==
    propagate_response(s, id, peer_id, [response |-> resp.resp, data |-> resp.data])

\* A response arm that keeps the Status response to a sentinel request from the peer manager
on_rpc_response_sentinel_silent(s, peer_id, id, resp) ==
    CASE resp.resp = "Pong" -> s
      [] resp.resp = "MetaData" -> s
      [] resp.resp = "Status" ->
            IF id = Behaviour
            THEN s
            ELSE propagate_response(pm_call(s, peer_statusd(peer_id)), id, peer_id,
                                    ResponseStatus(resp.data))
      [] OTHER -> s

\* Behaviour::on_rpc_event, the RPCReceived::Response arm
on_rpc_response(s, peer_id, id, resp) ==
    CASE resp.resp = "Pong" -> s
      [] resp.resp = "MetaData" -> s
      [] resp.resp = "Status" ->
            propagate_response(pm_call(s, peer_statusd(peer_id)), id, peer_id,
                               ResponseStatus(resp.data))
      [] OTHER -> s

\* Behaviour::on_rpc_event
on_rpc_event(s, message) ==
    LET peer_id == message.peer_id
        handler_id == message.conn_id
    IN  IF ~message.event.ok
        THEN on_rpc_error(s, peer_id, message.event)
        ELSE IF message.event.received = "Request"
             THEN on_rpc_request(s, peer_id, handler_id, message.event.substream_id,
                                 message.event.request)
             ELSE on_rpc_response(s, peer_id, message.event.id, message.event.response)

\* Behaviour::on_identify_event
MAX_IDENTIFY_ADDRESSES == 10

\* An on_identify_event that keeps the last addresses of the list
on_identify_event_keeps_last(s, event) ==
    IF event.id_event = "Received"
    THEN LET n == Len(event.listen_addrs)
             addrs == IF n > MAX_IDENTIFY_ADDRESSES
                      THEN SubSeq(event.listen_addrs, n - MAX_IDENTIFY_ADDRESSES + 1, n)
                      ELSE event.listen_addrs
         IN  pm_call(s, [fn |-> "identify", peer_id |-> event.peer_id,
                         proto |-> "", error |-> "", listen_addrs |-> addrs])
    ELSE s

on_identify_event(s, event) ==
    IF event.id_event = "Received"
    THEN LET addrs == IF Len(event.listen_addrs) > MAX_IDENTIFY_ADDRESSES
                     THEN SubSeq(event.listen_addrs, 1, MAX_IDENTIFY_ADDRESSES)
                     ELSE event.listen_addrs
         IN  pm_call(s, [fn |-> "identify", peer_id |-> event.peer_id,
                         proto |-> "", error |-> "", listen_addrs |-> addrs])
    ELSE s

\* The $on_event_fn argument of poll_behaviour!
on_event(behaviour, s, event) ==
    CASE behaviour = "gossipsub" -> on_gossip_event(s, event)
      [] behaviour = "mothra_rpc" -> on_rpc_event(s, event)
      [] behaviour = "identify" -> on_identify_event(s, event)

\* A closure that tags every notify payload as gossipsub's
DelegateIn_always_gossipsub(behaviour) == "Gossipsub"

\* The $notify_handler_event_closure argument of poll_behaviour!
DelegateIn(behaviour) ==
    CASE behaviour = "gossipsub" -> "Gossipsub"
      [] behaviour = "mothra_rpc" -> "RPC"
      [] behaviour = "identify" -> "Identify"

\* The poll_behaviour! macro: one sub-behaviour polled until it is Pending or
\* yields an action for the swarm. A sub-behaviour's poll pops the head of its queue.
RECURSIVE poll_behaviour(_, _)
poll_behaviour(behaviour, s) ==
    IF s[behaviour] = <<>>
    THEN [s |-> s, ret |-> Pending]
    ELSE LET action == Head(s[behaviour])
             s1 == [s EXCEPT ![behaviour] = Tail(@)]
         IN  CASE action.action = "GenerateEvent" ->
                      poll_behaviour(behaviour, on_event(behaviour, s1, action.event))
               [] action.action = "NotifyHandler" ->
                      [s |-> s1,
                       ret |-> NotifyHandler(action.peer_id, action.handler,
                                             Delegate(DelegateIn(behaviour), action.event))]
               [] OTHER -> [s |-> s1, ret |-> action]

\* A loop over the peer manager's events that ends the poll after a Ping or MetaData command
poll_peer_manager_returns_after_ping(s) ==
    IF s.peer_manager = <<>>
    THEN [s |-> s, ret |-> Pending]
    ELSE LET event == Head(s.peer_manager)
             s1 == [s EXCEPT !.peer_manager = Tail(@)]
         IN  CASE event.pm = "Dial" -> [s |-> s1, ret |-> DialPeer(event.arg, "Disconnected")]
               [] event.pm = "SocketUpdated" -> [s |-> s1, ret |-> ReportObservedAddr(event.arg)]
               [] event.pm = "Status" -> [s |-> s1, ret |-> GenerateEvent(StatusPeer(event.arg))]
               [] event.pm = "Ping" -> [s |-> ping(s1, Behaviour, event.arg), ret |-> Pending]
               [] event.pm = "MetaData" ->
                      [s |-> send_meta_data_request(s1, event.arg), ret |-> Pending]
               [] event.pm = "DisconnectPeer" ->
                      [s |-> [s1 EXCEPT !.peers_to_dc = Append(@, event.arg)],
                       ret |-> NotifyHandler(event.arg, Any,
                                             Shutdown(Some(Behaviour, Goodbye(<<>>))))]

\* Behaviour::custom_poll, the loop over the peer manager's events
RECURSIVE poll_peer_manager(_)
poll_peer_manager(s) ==
    IF s.peer_manager = <<>>
    THEN [s |-> s, ret |-> Pending]
    ELSE LET event == Head(s.peer_manager)
             s1 == [s EXCEPT !.peer_manager = Tail(@)]
         IN  CASE event.pm = "Dial" -> [s |-> s1, ret |-> DialPeer(event.arg, "Disconnected")]
               [] event.pm = "SocketUpdated" -> [s |-> s1, ret |-> ReportObservedAddr(event.arg)]
               [] event.pm = "Status" -> [s |-> s1, ret |-> GenerateEvent(StatusPeer(event.arg))]
               [] event.pm = "Ping" -> poll_peer_manager(ping(s1, Behaviour, event.arg))
               [] event.pm = "MetaData" -> poll_peer_manager(send_meta_data_request(s1, event.arg))
               [] event.pm = "DisconnectPeer" ->
                      [s |-> [s1 EXCEPT !.peers_to_dc = Append(@, event.arg)],
                       ret |-> NotifyHandler(event.arg, Any,
                                             Shutdown(Some(Behaviour, Goodbye(<<>>))))]

\* A custom_poll that shuts the handlers down through any one connection
custom_poll_shutdown_any(s) ==
    IF s.peers_to_dc # <<>>
    THEN [s |-> [s EXCEPT !.peers_to_dc = Tail(@)],
          ret |-> NotifyHandler(Head(s.peers_to_dc), Any, Shutdown(None))]
    ELSE LET r == poll_peer_manager(s) IN
         IF r.ret # Pending
         THEN r
         ELSE IF r.s.events # <<>>
              THEN [s |-> [r.s EXCEPT !.events = Tail(@)],
                    ret |-> GenerateEvent(Head(r.s.events))]
              ELSE [s |-> r.s, ret |-> Pending]

\* A custom_poll that polls the peer manager before the pending-disconnect queue
custom_poll_commands_first(s) ==
    LET r == poll_peer_manager(s) IN
    IF r.ret # Pending
    THEN r
    ELSE IF r.s.peers_to_dc # <<>>
         THEN [s |-> [r.s EXCEPT !.peers_to_dc = Tail(@)],
               ret |-> NotifyHandler(Head(r.s.peers_to_dc), All, Shutdown(None))]
         ELSE IF r.s.events # <<>>
              THEN [s |-> [r.s EXCEPT !.events = Tail(@)],
                    ret |-> GenerateEvent(Head(r.s.events))]
              ELSE [s |-> r.s, ret |-> Pending]

\* A custom_poll that returns the newest public event
custom_poll_newest_first(s) ==
    IF s.peers_to_dc # <<>>
    THEN [s |-> [s EXCEPT !.peers_to_dc = Tail(@)],
          ret |-> NotifyHandler(Head(s.peers_to_dc), All, Shutdown(None))]
    ELSE LET r == poll_peer_manager(s) IN
         IF r.ret # Pending
         THEN r
         ELSE IF r.s.events # <<>>
              THEN [s |-> [r.s EXCEPT !.events = SubSeq(@, 1, Len(@) - 1)],
                    ret |-> GenerateEvent(r.s.events[Len(r.s.events)])]
              ELSE [s |-> r.s, ret |-> Pending]

\* A custom_poll that shuts down the peer queued last
custom_poll_last_disconnect_first(s) ==
    IF s.peers_to_dc # <<>>
    THEN [s |-> [s EXCEPT !.peers_to_dc = SubSeq(@, 1, Len(@) - 1)],
          ret |-> NotifyHandler(s.peers_to_dc[Len(s.peers_to_dc)], All, Shutdown(None))]
    ELSE LET r == poll_peer_manager(s) IN
         IF r.ret # Pending
         THEN r
         ELSE IF r.s.events # <<>>
              THEN [s |-> [r.s EXCEPT !.events = Tail(@)],
                    ret |-> GenerateEvent(Head(r.s.events))]
              ELSE [s |-> r.s, ret |-> Pending]

\* A custom_poll that returns a queued public event before it polls the peer manager
custom_poll_events_first(s) ==
    IF s.peers_to_dc # <<>>
    THEN [s |-> [s EXCEPT !.peers_to_dc = Tail(@)],
          ret |-> NotifyHandler(Head(s.peers_to_dc), All, Shutdown(None))]
    ELSE IF s.events # <<>>
         THEN [s |-> [s EXCEPT !.events = Tail(@)], ret |-> GenerateEvent(Head(s.events))]
         ELSE poll_peer_manager(s)

\* A custom_poll that dials whatever the state of the connection
custom_poll_dial_always(s) ==
    LET c == IF s.peers_to_dc # <<>>
             THEN [s |-> [s EXCEPT !.peers_to_dc = Tail(@)],
                   ret |-> NotifyHandler(Head(s.peers_to_dc), All, Shutdown(None))]
             ELSE LET p == poll_peer_manager(s) IN
                  IF p.ret # Pending
                  THEN p
                  ELSE IF p.s.events # <<>>
                       THEN [s |-> [p.s EXCEPT !.events = Tail(@)],
                             ret |-> GenerateEvent(Head(p.s.events))]
                       ELSE [s |-> p.s, ret |-> Pending]
    IN  IF c.ret.action = "DialPeer"
        THEN [s |-> c.s, ret |-> DialPeer(c.ret.peer_id, "Always")]
        ELSE c

\* A custom_poll that queues the StatusPeer event behind the public events
custom_poll_status_queued(s) ==
    IF s.peers_to_dc # <<>>
    THEN [s |-> [s EXCEPT !.peers_to_dc = Tail(@)],
          ret |-> NotifyHandler(Head(s.peers_to_dc), All, Shutdown(None))]
    ELSE LET r == poll_peer_manager(s)
             q == IF r.ret.action = "GenerateEvent"
                  THEN [s |-> [r.s EXCEPT !.events = Append(@, r.ret.event)], ret |-> Pending]
                  ELSE r
         IN  IF q.ret # Pending
             THEN q
             ELSE IF q.s.events # <<>>
                  THEN [s |-> [q.s EXCEPT !.events = Tail(@)],
                        ret |-> GenerateEvent(Head(q.s.events))]
                  ELSE [s |-> q.s, ret |-> Pending]

\* Behaviour::custom_poll
custom_poll(s) ==
    IF s.peers_to_dc # <<>>
    THEN [s |-> [s EXCEPT !.peers_to_dc = Tail(@)],
          ret |-> NotifyHandler(Head(s.peers_to_dc), All, Shutdown(None))]
    ELSE LET r == poll_peer_manager(s) IN
         IF r.ret # Pending
         THEN r
         ELSE IF r.s.events # <<>>
              THEN [s |-> [r.s EXCEPT !.events = Tail(@)],
                    ret |-> GenerateEvent(Head(r.s.events))]
              ELSE [s |-> r.s, ret |-> Pending]

\* A poll that consults the RPC sub-behaviour before gossipsub
poll_rpc_first(s) ==
    LET r == poll_behaviour("mothra_rpc", s) IN
    IF r.ret # Pending THEN r
    ELSE LET g == poll_behaviour("gossipsub", r.s) IN
         IF g.ret # Pending THEN g
         ELSE LET i == poll_behaviour("identify", g.s) IN
              IF i.ret # Pending THEN i
              ELSE custom_poll(i.s)

\* A poll that runs custom_poll before the sub-behaviours
poll_custom_first(s) ==
    LET c == custom_poll(s) IN
    IF c.ret # Pending THEN c
    ELSE LET g == poll_behaviour("gossipsub", c.s) IN
         IF g.ret # Pending THEN g
         ELSE LET r == poll_behaviour("mothra_rpc", g.s) IN
              IF r.ret # Pending THEN r
              ELSE poll_behaviour("identify", r.s)

\* Behaviour::poll
poll(s) ==
    LET g == poll_behaviour("gossipsub", s) IN
    IF g.ret # Pending THEN g
    ELSE LET r == poll_behaviour("mothra_rpc", g.s) IN
         IF r.ret # Pending THEN r
         ELSE LET i == poll_behaviour("identify", r.s) IN
              IF i.ret # Pending THEN i
              ELSE custom_poll(i.s)

-----------------------------------------------------------------------------
(* The gossipsub engine and the topic conversion, which are not part of the *)
(* sources modelled here.                                                   *)

\* GossipTopic into Topic: the string form of a topic descriptor
topic_into(topic) == <<"/mothra/", topic>>

\* Gossipsub::subscribe: false when the topic is already subscribed
gs_subscribe(topics, topic) ==
    IF topic \in topics
    THEN [topics |-> topics, ok |-> FALSE]
    ELSE [topics |-> topics \cup {topic}, ok |-> TRUE]

\* Gossipsub::unsubscribe: false when the topic is not subscribed
gs_unsubscribe(topics, topic) ==
    IF topic \notin topics
    THEN [topics |-> topics, ok |-> FALSE]
    ELSE [topics |-> topics \ {topic}, ok |-> TRUE]

-----------------------------------------------------------------------------
(* The state after NetworkGlobals::new and Behaviour::new. *)

\* The metadata and ping payload NetworkGlobals::new is given
LocalData ==
    {[meta_data |-> <<17>>, ping_data |-> <<170>>],
     [meta_data |-> <<170>>, ping_data |-> <<17>>]}

Init ==
    /\ \E d \in LocalData :
          network_globals = [local_enr |-> "enr", fork_id |-> "fork",
                             meta_data |-> d.meta_data, ping_data |-> d.ping_data,
                             peer_id |-> "local", listen_multiaddrs |-> <<>>,
                             listen_port_tcp |-> 9000, listen_port_udp |-> 9000,
                             gossipsub_subscriptions |-> {}]
    /\ meta_data = network_globals.meta_data
    /\ ping_data = network_globals.ping_data
    /\ gossipsub = <<>>
    /\ gs_topics = {}
    /\ mothra_rpc = <<>>
    /\ identify = <<>>
    /\ peer_manager = <<>>
    /\ events = <<>>
    /\ peers_to_dc = <<>>
    /\ pm_calls = <<>>
    /\ ret = NoCall
    /\ handed = {}
    /\ seen_gossip_messages = <<>>

\* The number of items held in the queues of the behaviour and of its collaborators
Queued ==
    Len(gossipsub) + Len(mothra_rpc) + Len(identify) + Len(peer_manager)
        + Len(events) + Len(peers_to_dc)

\* A further input is accepted: the caller holds no unconsumed result and the
\* queues hold fewer than max items
Room(max) == ret = NoCall /\ Queued < max

\* The struct written back after a call that returned r
Store(s, r) ==
    /\ gossipsub' = s.gossipsub
    /\ mothra_rpc' = s.mothra_rpc
    /\ identify' = s.identify
    /\ peer_manager' = s.peer_manager
    /\ events' = s.events
    /\ peers_to_dc' = s.peers_to_dc
    /\ pm_calls' = s.pm_calls
    /\ ret' = r
    /\ UNCHANGED <<meta_data, ping_data, handed, seen_gossip_messages>>

-----------------------------------------------------------------------------
(* The inputs. *)

PeerRequestIds == ConnectionIds \X SubstreamIds

RPCRequests ==
    {Ping(d) : d \in Payloads} \cup {MetaDataRequest}
        \cup {Goodbye(d) : d \in Payloads} \cup {Status(d) : d \in Payloads}

RPCResponses ==
    {Pong(d) : d \in Payloads} \cup {MetaDataResponse(d) : d \in Payloads}
        \cup {StatusResponse(d) : d \in Payloads}

InboundRequests == {ReceivedRequest(i, r) : i \in SubstreamIds, r \in RPCRequests}
InboundResponses == {ReceivedResponse(i, r) : i \in RequestIds, r \in RPCResponses}
InboundErrors ==
    {Inbound(i, p, e) : i \in SubstreamIds, p \in Protocols, e \in RPCErrors}
OutboundErrors ==
    {Outbound(i, p, e) : i \in RequestIds, p \in Protocols, e \in RPCErrors}

\* Every RPCMessage the RPC behaviour can surface
RPCMessages ==
    {RPCMessage(p, c, e) :
        p \in PeerIds, c \in ConnectionIds,
        e \in InboundRequests \cup InboundResponses \cup InboundErrors \cup OutboundErrors}

Requests == {RequestStatus(d) : d \in Payloads} \cup {RequestGoodbye(d) : d \in Payloads}
Responses == {ResponseStatus(d) : d \in Payloads}

-----------------------------------------------------------------------------
(* The operations. *)

\* Behaviour::inject_event with a DelegateOut::RPC event
inject_event(peer_id, conn_id, event) ==
    /\ Store(rpc_inject_event(Self, peer_id, conn_id, event), NoCall)
    /\ UNCHANGED <<gs_topics, network_globals>>

\* Behaviour::inject_connected
inject_connected(peer_id) ==
    /\ Store(rpc_inject_connected(Self, peer_id), NoCall)
    /\ UNCHANGED <<gs_topics, network_globals>>

\* A send_request that refuses the id the behaviour keeps for its own requests
send_request_refusing_sentinel(peer_id, request_id, request) ==
    /\ IF request_id = Behaviour
       THEN Store(Self, Returned(FALSE))
       ELSE Store(rpc_send_request(Self, peer_id, request_id, RPCRequest_from(request)), NoCall)
    /\ UNCHANGED <<gs_topics, network_globals>>

\* Behaviour::send_request
send_request(peer_id, request_id, request) ==
    /\ Store(rpc_send_request(Self, peer_id, request_id, RPCRequest_from(request)), NoCall)
    /\ UNCHANGED <<gs_topics, network_globals>>

\* Behaviour::send_successful_response
send_successful_response(peer_id, id, response) ==
    /\ Store(rpc_send_response(Self, peer_id, id, RPCCodedResponse_from(response)), NoCall)
    /\ UNCHANGED <<gs_topics, network_globals>>

\* Behaviour::_send_error_reponse
send_error_reponse(peer_id, id, error, reason) ==
    /\ Store(rpc_send_response(Self, peer_id, id, from_error_code(error, reason)), NoCall)
    /\ UNCHANGED <<gs_topics, network_globals>>

\* gossipsub_subscriptions.write().insert(topic)
subscriptions_insert(subscriptions, topic) == subscriptions \cup {topic}

\* A remove that leaves the set as it is
subscriptions_remove_nothing(subscriptions, topic) == subscriptions

\* gossipsub_subscriptions.write().remove(&topic)
subscriptions_remove(subscriptions, topic) == subscriptions \ {topic}

\* A subscribe that reports success whatever the engine answers
subscribe_reporting_success(topic) ==
    LET r == gs_subscribe(gs_topics, topic_into(topic)) IN
    /\ network_globals' =
          [network_globals EXCEPT
              !.gossipsub_subscriptions = subscriptions_insert(@, topic)]
    /\ gs_topics' = r.topics
    /\ Store(Self, Returned(TRUE))

\* Behaviour::subscribe
subscribe(topic) ==
    LET r == gs_subscribe(gs_topics, topic_into(topic)) IN
    /\ network_globals' =
          [network_globals EXCEPT
              !.gossipsub_subscriptions = subscriptions_insert(@, topic)]
    /\ gs_topics' = r.topics
    /\ Store(Self, Returned(r.ok))

\* An unsubscribe that leaves the shared subscription set as it is
unsubscribe_set_kept(topic) ==
    LET r == gs_unsubscribe(gs_topics, topic_into(topic)) IN
    /\ network_globals' = network_globals
    /\ gs_topics' = r.topics
    /\ Store(Self, Returned(r.ok))

\* Behaviour::unsubscribe
unsubscribe(topic) ==
    LET r == gs_unsubscribe(gs_topics, topic_into(topic)) IN
    /\ network_globals' =
          [network_globals EXCEPT
              !.gossipsub_subscriptions = subscriptions_remove(@, topic)]
    /\ gs_topics' = r.topics
    /\ Store(Self, Returned(r.ok))

\* Gossipsub::publish: the engine has the message to send to a peer of the topic
gs_publish(queue, topic, message) ==
    Append(queue, NotifyHandler("Q", Any, [gossip_rpc |-> "publish"]))

\* Gossipsub::propagate_message: the engine has the cached message to forward
gs_propagate_message(queue, message_id, propagation_source) ==
    Append(queue, NotifyHandler("Q", Any, [gossip_rpc |-> "forward"]))

\* Behaviour::publish
publish(topic, message) ==
    /\ Store([Self EXCEPT !.gossipsub = gs_publish(@, topic_into(topic), message)], NoCall)
    /\ UNCHANGED <<gs_topics, network_globals>>

\* Behaviour::propagate_message
propagate_message(propagation_source, message_id) ==
    /\ Store([Self EXCEPT !.gossipsub = gs_propagate_message(@, message_id, propagation_source)],
             NoCall)
    /\ UNCHANGED <<gs_topics, network_globals>>

\* A poll that records the addresses it learnt in the shared globals
Poll_recording_addresses ==
    LET r == poll(Self) IN
    /\ Store(r.s, r.ret)
    /\ network_globals' = [network_globals EXCEPT !.listen_multiaddrs = Append(@, "addr1")]
    /\ UNCHANGED gs_topics

\* Behaviour::poll
Poll ==
    LET r == poll(Self) IN
    /\ Store(r.s, r.ret)
    /\ UNCHANGED <<gs_topics, network_globals>>

\* The caller consumes what the latest call returned
ResultTaken ==
    /\ ret # NoCall
    /\ ret' = NoCall
    /\ pm_calls' = <<>>
    /\ UNCHANGED <<gossipsub, gs_topics, mothra_rpc, identify, peer_manager, events,
                   peers_to_dc, meta_data, ping_data, network_globals, handed,
                   seen_gossip_messages>>

\* The gossipsub sub-behaviour has an action ready
GossipsubReady(action) ==
    /\ gossipsub' = Append(gossipsub, action)
    /\ pm_calls' = <<>>
    /\ ret' = NoCall
    /\ UNCHANGED <<gs_topics, mothra_rpc, identify, peer_manager, events, peers_to_dc,
                   meta_data, ping_data, network_globals, handed,
                   seen_gossip_messages>>

\* The identify sub-behaviour has an action ready
IdentifyReady(action) ==
    /\ identify' = Append(identify, action)
    /\ pm_calls' = <<>>
    /\ ret' = NoCall
    /\ UNCHANGED <<gossipsub, gs_topics, mothra_rpc, peer_manager, events, peers_to_dc,
                   meta_data, ping_data, network_globals, handed,
                   seen_gossip_messages>>

\* The peer manager has an event ready
PeerManagerReady(event) ==
    /\ peer_manager' = Append(peer_manager, event)
    /\ pm_calls' = <<>>
    /\ ret' = NoCall
    /\ UNCHANGED <<gossipsub, gs_topics, mothra_rpc, identify, events, peers_to_dc,
                   meta_data, ping_data, network_globals, handed,
                   seen_gossip_messages>>

-----------------------------------------------------------------------------
(* Spec: peers send requests on their connections and substreams while the  *)
(* behaviour issues requests of its own.                                    *)

Next ==
    \/ /\ Room(MaxQueued)
       /\ \E p \in PeerIds, c \in ConnectionIds, e \in InboundRequests : inject_event(p, c, e)
    \/ /\ Room(MaxQueued)
       /\ \E p \in PeerIds : inject_connected(p)
    \/ /\ Room(MaxQueued)
       /\ \E p \in PeerIds : PeerManagerReady(PmEvent("Ping", p))
    \/ Poll
    \/ ResultTaken

Spec == Init /\ [][Next]_vars

-----------------------------------------------------------------------------
(* What one poll does to the RPC queue and to the public queue, read off a  *)
(* step: the messages it dispatched to on_rpc_event and what it left behind *)
(* or returned.                                                             *)

IsGenerateEvent(action) == action.action = "GenerateEvent"

RECURSIVE LeadingEvents(_)
LeadingEvents(queue) ==
    IF queue = <<>> \/ ~IsGenerateEvent(Head(queue)) THEN 0 ELSE 1 + LeadingEvents(Tail(queue))

\* The step is a call of poll
PollStep == ret' # NoCall /\ ret'.action # "Returned"

\* poll gets past the gossipsub sub-behaviour
GossipsubQuiet == \A i \in DOMAIN gossipsub : IsGenerateEvent(gossipsub[i])

\* The RPCMessages a poll starting now dispatches, in order
Dispatched == [i \in 1..LeadingEvents(mothra_rpc) |-> mothra_rpc[i].event]

\* The RPC actions queued behind them
Behind == SubSeq(mothra_rpc, LeadingEvents(mothra_rpc) + 1, Len(mothra_rpc))

ReturnedRpcAction ==
    ret'.action = "NotifyHandler" /\ ret'.event.handler_in = "Delegate" /\ ret'.event.to = "RPC"

\* The RPC actions that left the queue or are in it after the step
RpcOut ==
    IF ReturnedRpcAction
    THEN <<NotifyHandler(ret'.peer_id, ret'.handler, ret'.event.event)>> \o mothra_rpc'
    ELSE mothra_rpc'

\* The RPC actions the step enqueued
Enqueued == SubSeq(RpcOut, Len(Behind) + 1, Len(RpcOut))

IsResponseAction(action) == action.event.send = "Response"
IsRequestMessage(message) == message.event.ok /\ message.event.received = "Request"
IsPingRequest(message) == IsRequestMessage(message) /\ message.event.request.method = "Ping"
IsMetaDataRequest(message) ==
    IsRequestMessage(message) /\ message.event.request.method = "MetaData"
IsGoodbyeRequest(message) ==
    IsRequestMessage(message) /\ message.event.request.method = "Goodbye"
IsStatusRequest(message) == IsRequestMessage(message) /\ message.event.request.method = "Status"
IsAnswered(message) == IsPingRequest(message) \/ IsMetaDataRequest(message)

\* The public events that left the queue or are in it after the step
PublicOut ==
    IF ret'.action = "GenerateEvent" /\ ret'.event.kind # "StatusPeer"
    THEN <<ret'.event>> \o events'
    ELSE events'

\* The public events the step appended
Appended == SubSeq(PublicOut, Len(events) + 1, Len(PublicOut))

-----------------------------------------------------------------------------
(* Claims checked under Spec. *)

\* C1: the response enqueued for an inbound Ping or MetaData request from peer P on
\* connection C with substream S is NotifyHandler{P, One(C), Response(S, ...)}: in
\* every poll the responses enqueued answer the dispatched Ping and MetaData
\* requests one for one, in order, each with its request's peer, connection and
\* substream.
C1_ResponseCarriesPeerRequestId ==
    [][PollStep /\ GossipsubQuiet =>
        LET asked == SelectSeq(Dispatched, IsAnswered)
            answers == SelectSeq(Enqueued, IsResponseAction)
        IN  /\ Len(answers) = Len(asked)
            /\ \A i \in DOMAIN asked :
                  /\ answers[i].action = "NotifyHandler"
                  /\ answers[i].peer_id = asked[i].peer_id
                  /\ answers[i].handler = One(asked[i].conn_id)
                  /\ answers[i].event.substream_id = asked[i].event.substream_id]_vars

\* Two requests of different peers, connections and substreams were answered: the
\* first answer was returned by poll, the second is queued.
C1_Witness ==
    /\ ret.action = "NotifyHandler"
    /\ ret.handler = One(2)
    /\ ret.event.handler_in = "Delegate"
    /\ ret.event.event.send = "Response"
    /\ ret.event.event.substream_id = 7
    /\ mothra_rpc # <<>>
    /\ mothra_rpc[1].peer_id # ret.peer_id
    /\ mothra_rpc[1].handler = One(1)
    /\ mothra_rpc[1].event.send = "Response"
    /\ mothra_rpc[1].event.substream_id = 9

\* The response the behaviour owes to an inbound Ping
PongFor(message) ==
    NotifyHandler(message.peer_id, One(message.conn_id),
                  SendResponse(message.event.substream_id, Success(Pong(ping_data))))

\* C8: every inbound Ping request, whatever its payload, is answered by one
\* Success(Pong(local ping payload)); a poll that dispatches Ping requests only
\* enqueues exactly these responses and nothing else, appends no public event,
\* leaves the pending-disconnect queue alone and calls nothing on the peer manager.
C8_PingAnsweredWithLocalPayload ==
    [][PollStep /\ GossipsubQuiet =>
        LET asked == SelectSeq(Dispatched, IsAnswered)
            answers == SelectSeq(Enqueued, IsResponseAction)
        IN  /\ Len(answers) = Len(asked)
            /\ \A i \in DOMAIN asked :
                  IsPingRequest(asked[i]) => answers[i] = PongFor(asked[i])
            /\ (Dispatched # <<>> /\ \A i \in DOMAIN Dispatched : IsPingRequest(Dispatched[i]))
                  => /\ Enqueued = [i \in DOMAIN Dispatched |-> PongFor(Dispatched[i])]
                     /\ events' = events
                     /\ peers_to_dc' = peers_to_dc
                     /\ pm_calls' = <<>>]_vars

\* poll returned the Pong for a Ping of peer P on connection 1, substream 7.
C8_Witness ==
    /\ ret = NotifyHandler("P", One(1),
                 Delegate("RPC", SendResponse(7, Success(Pong(ping_data)))))
    /\ events = <<>>
    /\ peers_to_dc = <<>>
    /\ pm_calls = <<>>

IsRequestReceived(event) == event.kind = "RequestReceived"
IsPeerStatusd(call) == call.fn = "peer_statusd"

\* The public event an inbound Status request becomes
RequestReceivedFor(message) ==
    RequestReceived(message.peer_id, <<message.conn_id, message.event.substream_id>>,
                    RequestStatus(message.event.request.data))

\* C9: every inbound Status(msg) request from P on connection C, substream S makes
\* one peer_statusd(P) call and appends one RequestReceived{P, (C,S), Status(msg)}
\* with msg unchanged, in the order of the requests; a poll that dispatches Status
\* requests only enqueues no response.
C9_StatusRequestPropagated ==
    [][PollStep /\ GossipsubQuiet =>
        LET statuses == SelectSeq(Dispatched, IsStatusRequest)
        IN  /\ SelectSeq(Appended, IsRequestReceived)
                  = [i \in DOMAIN statuses |-> RequestReceivedFor(statuses[i])]
            /\ SelectSeq(pm_calls', IsPeerStatusd)
                  = [i \in DOMAIN statuses |-> peer_statusd(statuses[i].peer_id)]
            /\ (\A i \in DOMAIN Dispatched : IsStatusRequest(Dispatched[i]))
                  => SelectSeq(Enqueued, IsResponseAction) = <<>>]_vars

\* poll returned the RequestReceived of a Status request of P on connection 2,
\* substream 9, after telling the peer manager.
C9_Witness ==
    /\ ret = GenerateEvent(RequestReceived("P", <<2, 9>>, RequestStatus(<<17>>)))
    /\ pm_calls = <<peer_statusd("P")>>
    /\ mothra_rpc = <<>>

-----------------------------------------------------------------------------
(* SpecOutbound: the application and the behaviour issue requests, and the  *)
(* handlers report the responses to them and the failures of substreams.    *)
(* on_rpc_event reads no connection id from a response or an error, so the  *)
(* handler of connection 1 reports them all.                                *)

NextOutbound ==
    \/ /\ Room(MaxQueued)
       /\ \E p \in PeerIds, i \in RequestIds, r \in Requests : send_request(p, i, r)
    \/ /\ Room(MaxQueued)
       /\ \E p \in PeerIds : inject_connected(p)
    \/ /\ Room(MaxQueued)
       /\ \E p \in PeerIds, e \in InboundResponses : inject_event(p, 1, e)
    \/ /\ Room(MaxQueued)
       /\ \E p \in PeerIds, e \in OutboundErrors : inject_event(p, 1, e)
    \/ /\ Room(MaxQueued)
       /\ \E p \in PeerIds, e \in InboundErrors : inject_event(p, 1, e)
    \/ Poll
    \/ ResultTaken

SpecOutbound == Init /\ [][NextOutbound]_vars

\* A ResponseReceived or RPCFailed for a request the behaviour issued itself
IsSentinelEvent(event) ==
    event.kind \in {"ResponseReceived", "RPCFailed"} /\ event.id = Behaviour

\* C2: the public event queue never holds, and poll never returns, a
\* ResponseReceived or an RPCFailed whose id is RequestId::Behaviour.
C2_SentinelNeverSurfaced ==
    /\ \A i \in DOMAIN events : ~IsSentinelEvent(events[i])
    /\ ret.action = "GenerateEvent" => ~IsSentinelEvent(ret.event)

\* A poll dispatched a Status response of P and the failure of a request to Q, both
\* told to the peer manager, and had nothing to surface: both carried the sentinel.
C2_Witness ==
    /\ pm_calls = <<peer_statusd("P"), handle_rpc_error("Q", "Status", "StreamTimeout")>>
    /\ ret = Pending
    /\ events = <<>>

IsError(message) == ~message.event.ok
IsOutboundFailure(message) ==
    ~message.event.ok /\ message.event.dir = "Outbound" /\ message.event.id # Behaviour
IsHandleRpcError(call) == call.fn = "handle_rpc_error"
IsRPCFailed(event) == event.kind = "RPCFailed"

\* C10: for every HandlerErr::Outbound{id, proto, error} of peer P the peer manager's
\* handle_rpc_error(P, proto, error) is called, and RPCFailed{id, P, error} is
\* appended to the public queue if and only if id is not the sentinel.
C10_OutboundFailureSurfaced ==
    [][PollStep /\ GossipsubQuiet =>
        LET errors == SelectSeq(Dispatched, IsError)
            failures == SelectSeq(Dispatched, IsOutboundFailure)
        IN  /\ SelectSeq(pm_calls', IsHandleRpcError)
                  = [i \in DOMAIN errors |->
                        handle_rpc_error(errors[i].peer_id, errors[i].event.proto,
                                         errors[i].event.error)]
            /\ SelectSeq(Appended, IsRPCFailed)
                  = [i \in DOMAIN failures |->
                        RPCFailed(failures[i].event.id, failures[i].peer_id,
                                  failures[i].event.error)]]_vars

\* poll returned the RPCFailed of request 42 to P, after telling the peer manager.
C10_Witness ==
    /\ ret = GenerateEvent(RPCFailed("42", "P", "StreamTimeout"))
    /\ pm_calls = <<handle_rpc_error("P", "Status", "StreamTimeout")>>

-----------------------------------------------------------------------------
(* SpecControl: peers send Ping and MetaData requests and Pong and MetaData *)
(* responses, the peer manager asks for pings and metadata, and a peer now  *)
(* and then sends a Status request, the one message here that the           *)
(* application is to see.                                                   *)

ControlRequests == {Ping(d) : d \in Payloads} \cup {MetaDataRequest}
ControlResponses == {Pong(d) : d \in Payloads} \cup {MetaDataResponse(d) : d \in Payloads}

NextControl ==
    \/ /\ Room(MaxQueued)
       /\ \E p \in PeerIds, c \in ConnectionIds, i \in SubstreamIds, r \in ControlRequests :
             inject_event(p, c, ReceivedRequest(i, r))
    \/ /\ Room(MaxQueued)
       /\ \E p \in PeerIds, c \in ConnectionIds, i \in RequestIds, r \in ControlResponses :
             inject_event(p, c, ReceivedResponse(i, r))
    \/ /\ Room(MaxQueued)
       /\ \E p \in PeerIds : inject_event(p, 1, ReceivedRequest(7, Status(<<17>>)))
    \/ /\ Room(MaxQueued)
       /\ \E p \in PeerIds : inject_connected(p)
    \/ /\ Room(MaxQueued)
       /\ \E p \in PeerIds, k \in {"Ping", "MetaData"} : PeerManagerReady(PmEvent(k, p))
    \/ Poll
    \/ ResultTaken

SpecControl == Init /\ [][NextControl]_vars

\* An inbound Ping or MetaData request, or a Pong or MetaData response
IsControl(message) ==
    /\ message.event.ok
    /\ IF message.event.received = "Request"
       THEN message.event.request.method \in {"Ping", "MetaData"}
       ELSE message.event.response.resp \in {"Pong", "MetaData"}
IsNotControl(message) == ~IsControl(message)

\* C4: no inbound Ping or MetaData request and no Pong or MetaData response causes
\* a public event: the events a poll appends to the public queue or returns are
\* exactly those owed to the other messages it dispatched, and a poll that
\* dispatches only such control messages leaves the public queue as it was and
\* returns no GenerateEvent unless the event was queued before.
C4_ControlTrafficStaysInternal ==
    [][PollStep =>
        LET others == SelectSeq(Dispatched, IsNotControl)
        IN  /\ Appended = [i \in DOMAIN others |-> RequestReceivedFor(others[i])]
            /\ others = <<>> =>
                  /\ events' = IF ret'.action = "GenerateEvent" THEN Tail(events) ELSE events
                  /\ ret'.action = "GenerateEvent" => ret'.event = Head(events)]_vars

\* poll dispatched a MetaData request of Q and returned its answer; nothing was
\* put on the public queue.
C4_Witness ==
    /\ ret = NotifyHandler("Q", One(2),
                 Delegate("RPC", SendResponse(9, Success(MetaDataResponse(meta_data)))))
    /\ mothra_rpc = <<>>
    /\ events = <<>>

-----------------------------------------------------------------------------
(* SpecDisconnect: peers say Goodbye and send Status requests, the peer     *)
(* manager issues its commands, and the sub-behaviours have actions for the *)
(* swarm.                                                                   *)

PeerManagerEvents ==
    {PmEvent(k, p) : k \in {"Dial", "Status", "Ping", "MetaData", "DisconnectPeer"},
                     p \in PeerIds}
        \cup {PmEvent("SocketUpdated", a) : a \in Addresses}

NextDisconnect ==
    \/ /\ Room(MaxDisconnectQueued)
       /\ \E p \in PeerIds : inject_event(p, 1, ReceivedRequest(7, Goodbye(<<17>>)))
    \/ /\ Room(MaxDisconnectQueued)
       /\ \E p \in PeerIds : inject_event(p, 2, ReceivedRequest(9, Status(<<170>>)))
    \/ /\ Room(MaxDisconnectQueued)
       /\ \E e \in PeerManagerEvents : PeerManagerReady(e)
    \/ /\ Room(MaxDisconnectQueued)
       /\ \E p \in PeerIds : inject_connected(p)
    \/ /\ Room(MaxDisconnectQueued)
       /\ GossipsubReady(NotifyHandler("Q", Any, [gossip_rpc |-> "graft"]))
    \/ /\ Room(MaxDisconnectQueued)
       /\ IdentifyReady(NotifyHandler("Q", Any, [identify_push |-> "info"]))
    \/ Poll
    \/ ResultTaken

SpecDisconnect == Init /\ [][NextDisconnect]_vars

\* poll gets past the identify sub-behaviour
IdentifyQuiet == \A i \in DOMAIN identify : IsGenerateEvent(identify[i])

\* poll gets past the RPC sub-behaviour: it has events only, none of them answered
RpcQuiet == Behind = <<>> /\ \A i \in DOMAIN Dispatched : ~IsAnswered(Dispatched[i])

\* No sub-behaviour has an action for the swarm: poll reaches custom_poll
ReachesCustomPoll == GossipsubQuiet /\ RpcQuiet /\ IdentifyQuiet

\* The peers whose Goodbye a poll starting now dispatches, in order
GoodbyePeers ==
    LET goodbyes == SelectSeq(Dispatched, IsGoodbyeRequest)
    IN  [i \in DOMAIN goodbyes |-> goodbyes[i].peer_id]

\* The pending-disconnect queue as custom_poll finds it
PendingAtCustomPoll == peers_to_dc \o GoodbyePeers

\* The number of Ping and MetaData commands at the head of the peer manager's events
RECURSIVE LeadingPings(_)
LeadingPings(queue) ==
    IF queue = <<>> \/ Head(queue).pm \notin {"Ping", "MetaData"}
    THEN 0
    ELSE 1 + LeadingPings(Tail(queue))

\* poll returned Shutdown(None)
ReturnedShutdown ==
    /\ ret'.action = "NotifyHandler"
    /\ ret'.event.handler_in = "Shutdown"
    /\ ~ret'.event.goodbye.some

\* poll returned Shutdown(Some(goodbye))
ReturnedGoodbye ==
    /\ ret'.action = "NotifyHandler"
    /\ ret'.event.handler_in = "Shutdown"
    /\ ret'.event.goodbye.some

\* The peers that left the pending-disconnect queue or are in it after the step
DcOut == IF ReturnedShutdown THEN <<ret'.peer_id>> \o peers_to_dc' ELSE peers_to_dc'

\* C3: each peer appears at most once in the pending-disconnect queue.
C3_PeerQueuedAtMostOnce ==
    \A i, j \in DOMAIN peers_to_dc : peers_to_dc[i] = peers_to_dc[j] => i = j

\* C6: a poll that reaches custom_poll with an empty pending-disconnect queue and
\* consumes DisconnectPeer(P) returns NotifyHandler{P, Any, Shutdown(Some((sentinel,
\* Goodbye(empty))))}, leaves P alone in the queue and appends no public event for
\* the goodbye; a poll that reaches custom_poll with a non-empty queue returns
\* NotifyHandler{head, All, Shutdown(None)} and removes the head; and a queued peer
\* stays at the head until that poll, so the goodbye precedes the shutdown.
C6_GoodbyeThenShutdown ==
    [][PollStep =>
        /\ ReachesCustomPoll =>
              LET pending == PendingAtCustomPoll
                  n == LeadingPings(peer_manager)
                  statuses == SelectSeq(Dispatched, IsStatusRequest)
              IN  /\ pending # <<>> =>
                        /\ ret' = NotifyHandler(Head(pending), All, Shutdown(None))
                        /\ peers_to_dc' = Tail(pending)
                        /\ peer_manager' = peer_manager
                  /\ (/\ pending = <<>>
                      /\ n < Len(peer_manager)
                      /\ peer_manager[n + 1].pm = "DisconnectPeer") =>
                        /\ ret' = NotifyHandler(peer_manager[n + 1].arg, Any,
                                      Shutdown(Some(Behaviour, Goodbye(<<>>))))
                        /\ peers_to_dc' = <<peer_manager[n + 1].arg>>
                        /\ peer_manager' = SubSeq(peer_manager, n + 2, Len(peer_manager))
                        /\ events' = events
                              \o [i \in DOMAIN statuses |-> RequestReceivedFor(statuses[i])]
        /\ ReturnedShutdown =>
              /\ ReachesCustomPoll
              /\ PendingAtCustomPoll # <<>>
        /\ (peers_to_dc # <<>> /\ ~ReturnedShutdown) =>
              /\ peers_to_dc' # <<>>
              /\ Head(peers_to_dc') = Head(peers_to_dc)]_vars

\* poll consumed DisconnectPeer(P): it returned the goodbye for P and P is queued.
C6_Witness ==
    /\ ret = NotifyHandler("P", Any, Shutdown(Some(Behaviour, Goodbye(<<>>))))
    /\ peers_to_dc = <<"P">>
    /\ peer_manager = <<>>

IsDisconnecting(call) == call.fn = "_disconnecting_peer"

\* C7: every inbound Goodbye from P tells the peer manager that P is disconnecting
\* and appends P to the pending-disconnect queue; a poll that dispatches Goodbyes
\* only enqueues no response and appends no public event; and when no sub-behaviour
\* has an action the poll returns NotifyHandler{P, All, Shutdown(None)} for the peer
\* at the head of the queue, which is P when no disconnect was queued ahead of it.
C7_GoodbyeQueuesDisconnect ==
    [][PollStep /\ GossipsubQuiet =>
        LET goodbyes == SelectSeq(Dispatched, IsGoodbyeRequest)
        IN  /\ SelectSeq(pm_calls', IsDisconnecting)
                  = [i \in DOMAIN goodbyes |-> disconnecting_peer(goodbyes[i].peer_id)]
            /\ DcOut = peers_to_dc \o GoodbyePeers
                          \o (IF ReturnedGoodbye THEN <<ret'.peer_id>> ELSE <<>>)
            /\ (Dispatched # <<>> /\ Len(goodbyes) = Len(Dispatched)) =>
                  /\ Enqueued = <<>>
                  /\ events' = events
                  /\ ret'.action # "GenerateEvent"
            /\ (ReachesCustomPoll /\ PendingAtCustomPoll # <<>>) =>
                  ret' = NotifyHandler(Head(PendingAtCustomPoll), All, Shutdown(None))]_vars

\* poll dispatched a Goodbye of P, told the peer manager and returned the shutdown.
C7_Witness ==
    /\ ret = NotifyHandler("P", All, Shutdown(None))
    /\ pm_calls = <<disconnecting_peer("P")>>
    /\ peers_to_dc = <<>>
    /\ events = <<>>
    /\ mothra_rpc = <<>>

-----------------------------------------------------------------------------
(* SpecSubscribe: the application subscribes to and unsubscribes from       *)
(* topics while the gossipsub sub-behaviour delivers messages and           *)
(* subscription notices of peers.                                           *)

GossipsubEvents ==
    {GsMessage(p, m, <<topic_into(t)>>, d) :
        p \in {"P"}, m \in MessageIds, t \in Topics, d \in {<<17>>}}
        \cup {GsSubscribed(p, topic_into(t)) : p \in {"Q"}, t \in Topics}
        \cup {GsUnsubscribed(p, topic_into(t)) : p \in {"Q"}, t \in Topics}

NextSubscribe ==
    \/ /\ ret = NoCall
       /\ \E t \in Topics : subscribe(t)
    \/ /\ ret = NoCall
       /\ \E t \in Topics : unsubscribe(t)
    \/ /\ Room(MaxQueued)
       /\ \E e \in GossipsubEvents : GossipsubReady(GenerateEvent(e))
    \/ Poll
    \/ ResultTaken

SpecSubscribe == Init /\ [][NextSubscribe]_vars

-----------------------------------------------------------------------------
(* Claims about the responses consumed inside the behaviour, under          *)
(* SpecControl.                                                             *)

\* A Pong or MetaData response received from a peer
IsControlResponse(message) ==
    /\ message.event.ok
    /\ message.event.received = "Response"
    /\ message.event.response.resp \in {"Pong", "MetaData"}

\* C11: when a Pong or MetaData response of a peer is dispatched, the peer manager
\* is notified of it: the poll makes a call on the peer manager for that peer; and
\* the poll appends no public event for it, only those owed to other messages.
C11_ControlResponseReachesPeerManager ==
    [][PollStep /\ GossipsubQuiet =>
        LET replies == SelectSeq(Dispatched, IsControlResponse)
            others == SelectSeq(Dispatched, IsNotControl)
        IN  /\ \A i \in DOMAIN replies :
                  \E j \in DOMAIN pm_calls' : pm_calls'[j].peer_id = replies[i].peer_id
            /\ Appended = [i \in DOMAIN others |-> RequestReceivedFor(others[i])]]_vars

-----------------------------------------------------------------------------
(* SpecOrder: every source that poll consults has something: the gossipsub  *)
(* and identify sub-behaviours deliver events and actions for the swarm,    *)
(* peers say Goodbye, a peer connects, and the peer manager issues its      *)
(* commands.                                                                *)

NextOrder ==
    \/ /\ Room(MaxDisconnectQueued)
       /\ GossipsubReady(GenerateEvent(GsMessage("P", "m1", <<topic_into("blocks")>>, <<17>>)))
    \/ /\ Room(MaxDisconnectQueued)
       /\ GossipsubReady(NotifyHandler("Q", Any, [gossip_rpc |-> "graft"]))
    \/ /\ Room(MaxDisconnectQueued)
       /\ \E p \in PeerIds : inject_event(p, 1, ReceivedRequest(7, Goodbye(<<17>>)))
    \/ /\ Room(MaxDisconnectQueued)
       /\ inject_connected("Q")
    \/ /\ Room(MaxDisconnectQueued)
       /\ IdentifyReady(GenerateEvent([id_event |-> "Sent", peer_id |-> "P"]))
    \/ /\ Room(MaxDisconnectQueued)
       /\ IdentifyReady(NotifyHandler("Q", Any, [identify_push |-> "info"]))
    \/ /\ Room(MaxDisconnectQueued)
       /\ \E e \in PeerManagerEvents : PeerManagerReady(e)
    \/ Poll
    \/ ResultTaken

SpecOrder == Init /\ [][NextOrder]_vars

\* The first action for the swarm in a sub-behaviour's queue, as poll hands it on
FirstAction(to, queue) ==
    LET action == queue[LeadingEvents(queue) + 1]
    IN  IF action.action = "NotifyHandler"
        THEN NotifyHandler(action.peer_id, action.handler, Delegate(to, action.event))
        ELSE action

\* What is queued behind that action
BehindFirst(queue) == SubSeq(queue, LeadingEvents(queue) + 2, Len(queue))

\* poll returned an action of a sub-behaviour
ReturnedDelegate ==
    ret'.action = "NotifyHandler" /\ ret'.event.handler_in = "Delegate"

\* C12: one poll consults gossipsub, RPC, identify and custom_poll in this order and
\* returns the first action for the swarm it finds: the sources before it were
\* drained, the sources after it are left as they were, and custom_poll's result
\* is returned only when all three sub-behaviours were drained.
C12_SourcesPolledInOrder ==
    [][PollStep =>
        IF ~GossipsubQuiet
        THEN /\ ret' = FirstAction("Gossipsub", gossipsub)
             /\ gossipsub' = BehindFirst(gossipsub)
             /\ mothra_rpc' = mothra_rpc
             /\ identify' = identify
             /\ peer_manager' = peer_manager
             /\ peers_to_dc' = peers_to_dc
        ELSE IF ~RpcQuiet
        THEN /\ ret' = FirstAction("RPC", RpcOut)
             /\ gossipsub' = <<>>
             /\ identify' = identify
             /\ peer_manager' = peer_manager
             /\ peers_to_dc' = PendingAtCustomPoll
        ELSE IF ~IdentifyQuiet
        THEN /\ ret' = FirstAction("Identify", identify)
             /\ gossipsub' = <<>>
             /\ mothra_rpc' = <<>>
             /\ identify' = BehindFirst(identify)
             /\ peer_manager' = peer_manager
             /\ peers_to_dc' = PendingAtCustomPoll
        ELSE /\ ~ReturnedDelegate
             /\ gossipsub' = <<>>
             /\ identify' = <<>>
             /\ \A i \in DOMAIN mothra_rpc' :
                   /\ mothra_rpc'[i].action = "NotifyHandler"
                   /\ mothra_rpc'[i].event.send = "Request"
                   /\ mothra_rpc'[i].event.id = Behaviour]_vars

\* poll returned the action of gossipsub and left a Goodbye in the RPC queue and a
\* command with the peer manager.
C12_Witness ==
    /\ ret = NotifyHandler("Q", Any, Delegate("Gossipsub", [gossip_rpc |-> "graft"]))
    /\ mothra_rpc # <<>>
    /\ mothra_rpc[1].action = "GenerateEvent"
    /\ peer_manager # <<>>
    /\ peers_to_dc = <<>>

\* C13: a poll that reaches custom_poll with a non-empty pending-disconnect queue
\* returns Shutdown(None) for the head of the queue and does not poll the peer
\* manager; a command of the peer manager is consumed only by a poll that reaches
\* custom_poll with the queue empty, which consumes the leading Ping and MetaData
\* commands and at most one other command; and the poll that consumes
\* DisconnectPeer(p) leaves p pending, so the next command waits for p's shutdown.
C13_DisconnectBeforeCommands ==
    [][PollStep =>
        /\ (ReachesCustomPoll /\ PendingAtCustomPoll # <<>>) =>
              /\ ret' = NotifyHandler(Head(PendingAtCustomPoll), All, Shutdown(None))
              /\ peers_to_dc' = Tail(PendingAtCustomPoll)
              /\ peer_manager' = peer_manager
              /\ mothra_rpc' = <<>>
        /\ peer_manager' # peer_manager =>
              /\ ReachesCustomPoll
              /\ PendingAtCustomPoll = <<>>
              /\ LET n == LeadingPings(peer_manager)
                 IN  peer_manager' = SubSeq(peer_manager, n + 2, Len(peer_manager))
        /\ ReturnedGoodbye => peers_to_dc' = <<ret'.peer_id>>]_vars

\* poll returned the shutdown of P while a Dial command waits with the peer manager.
C13_Witness ==
    /\ ret = NotifyHandler("P", All, Shutdown(None))
    /\ peer_manager = <<PmEvent("Dial", "Q")>>
    /\ peers_to_dc = <<>>

IsGsMessage(action) == action.event.gs = "Message"
IsPubsubMessage(event) == event.kind = "PubsubMessage"

\* The public event a gossip Message becomes
PubsubMessageFor(action) ==
    PubsubMessage(action.event.message_id, action.event.source, action.event.topics,
                  action.event.data)

\* C14: the poll that returns the goodbye for a DisconnectPeer(p) has drained the
\* gossipsub sub-behaviour first and appended the PubsubMessage of every gossip
\* message it held; and a poll that starts with an empty pending-disconnect queue,
\* gossip messages waiting and DisconnectPeer(p) the peer manager's first command,
\* no sub-behaviour having an action for the swarm, returns that goodbye.
C14_GossipDrainedBeforeDisconnect ==
    [][PollStep =>
        /\ ReturnedGoodbye =>
              /\ GossipsubQuiet
              /\ gossipsub' = <<>>
              /\ LET messages == SelectSeq(gossipsub, IsGsMessage)
                 IN  SelectSeq(events', IsPubsubMessage)
                        = SelectSeq(events, IsPubsubMessage)
                             \o [i \in DOMAIN messages |-> PubsubMessageFor(messages[i])]
        /\ (/\ gossipsub # <<>>
            /\ ReachesCustomPoll
            /\ PendingAtCustomPoll = <<>>
            /\ LeadingPings(peer_manager) < Len(peer_manager)
            /\ peer_manager[LeadingPings(peer_manager) + 1].pm = "DisconnectPeer") =>
              /\ ReturnedGoodbye
              /\ ret'.peer_id = peer_manager[LeadingPings(peer_manager) + 1].arg]_vars

\* poll appended the PubsubMessage of a gossip message and returned the goodbye for P.
C14_Witness ==
    /\ ret = NotifyHandler("P", Any, Shutdown(Some(Behaviour, Goodbye(<<>>))))
    /\ events = <<PubsubMessage("m1", "P", <<topic_into("blocks")>>, <<17>>)>>
    /\ gossipsub = <<>>
    /\ peers_to_dc = <<"P">>

-----------------------------------------------------------------------------
(* SpecEvents: every producer of public events is at work: gossip messages  *)
(* and subscription notices, Status requests and responses, failures of     *)
(* outbound requests and the peer manager's Status command, while a         *)
(* connecting peer gives the RPC sub-behaviour actions for the swarm.       *)

MaxEventsQueued == 3

NextEvents ==
    \/ /\ Room(MaxEventsQueued)
       /\ \E e \in {GsMessage("P", "m1", <<topic_into("blocks")>>, <<17>>),
                    GsSubscribed("Q", topic_into("attestations"))} :
             GossipsubReady(GenerateEvent(e))
    \/ /\ Room(MaxEventsQueued)
       /\ inject_event("P", 2, ReceivedRequest(9, Status(<<170>>)))
    \/ /\ Room(MaxEventsQueued)
       /\ \E i \in RequestIds : inject_event("Q", 1, ReceivedResponse(i, StatusResponse(<<17>>)))
    \/ /\ Room(MaxEventsQueued)
       /\ \E i \in RequestIds : inject_event("P", 1, Outbound(i, "Status", "StreamTimeout"))
    \/ /\ Room(MaxEventsQueued)
       /\ inject_connected("Q")
    \/ /\ Room(MaxEventsQueued)
       /\ PeerManagerReady(PmEvent("Status", "Q"))
    \/ Poll
    \/ ResultTaken

SpecEvents == Init /\ [][NextEvents]_vars

\* The public events owed to a gossip event
OwedToGossip(action) ==
    CASE action.event.gs = "Message" -> <<PubsubMessageFor(action)>>
      [] action.event.gs = "Subscribed" ->
            <<PeerSubscribed(action.event.peer_id, action.event.topic)>>
      [] OTHER -> <<>>

\* The public events owed to a message of the RPC sub-behaviour
OwedToRpc(message) ==
    IF IsStatusRequest(message)
    THEN <<RequestReceivedFor(message)>>
    ELSE IF IsOutboundFailure(message)
    THEN <<RPCFailed(message.event.id, message.peer_id, message.event.error)>>
    ELSE IF /\ message.event.ok
            /\ message.event.received = "Response"
            /\ message.event.response.resp = "Status"
            /\ message.event.id # Behaviour
    THEN <<ResponseReceived(message.peer_id, message.event.id,
                            ResponseStatus(message.event.response.data))>>
    ELSE <<>>

RECURSIVE Flatten(_)
Flatten(seqs) == IF seqs = <<>> THEN <<>> ELSE Head(seqs) \o Flatten(Tail(seqs))

\* The public events a poll starting now appends, in the order it appends them
Owed ==
    Flatten([i \in 1..LeadingEvents(gossipsub) |-> OwedToGossip(gossipsub[i])])
        \o (IF GossipsubQuiet
            THEN Flatten([i \in DOMAIN Dispatched |-> OwedToRpc(Dispatched[i])])
            ELSE <<>>)

\* poll returned an event taken from the public queue
ReturnedQueuedEvent == ret'.action = "GenerateEvent" /\ ret'.event.kind # "StatusPeer"

\* C15: the public events are returned by poll in the order they were appended,
\* each once: a poll appends the events owed to what it dispatched behind those
\* queued, and either returns the head of the queue and removes it or leaves the
\* queue whole; no other step changes the queue.
C15_PublicEventsFifo ==
    [][/\ PollStep =>
            LET queue == events \o Owed
            IN  IF ReturnedQueuedEvent
                THEN /\ queue # <<>>
                     /\ ret'.event = Head(queue)
                     /\ events' = Tail(queue)
                ELSE events' = queue
       /\ ~PollStep => events' = events]_vars

\* poll returned the first of three events appended while the RPC sub-behaviour had
\* actions for the swarm; the other two are queued in the order of their causes.
C15_Witness ==
    /\ ret.action = "GenerateEvent"
    /\ ret.event.kind = "PubsubMessage"
    /\ Len(events) = 2
    /\ events[1].kind = "RequestReceived"
    /\ events[2].kind = "RPCFailed"

-----------------------------------------------------------------------------
(* SpecHandler: the application sends requests; the swarm delivers what     *)
(* poll returns to the handlers; a handler reports a response only to a     *)
(* request it was given (RPCReceived::Response carries "the application     *)
(* given ID of the original request sent to the peer").                     *)

\* The swarm delivers the value poll returned: a request goes to the peer's handler
HandlerTakes ==
    /\ ret # NoCall
    /\ ret' = NoCall
    /\ pm_calls' = <<>>
    /\ handed' =
          IF /\ ret.action = "NotifyHandler"
             /\ ret.event.handler_in = "Delegate"
             /\ ret.event.to = "RPC"
             /\ ret.event.event.send = "Request"
          THEN handed \cup {<<ret.peer_id, ret.event.event.id>>}
          ELSE handed
    /\ UNCHANGED <<gossipsub, gs_topics, mothra_rpc, identify, peer_manager, events,
                   peers_to_dc, meta_data, ping_data, network_globals,
                   seen_gossip_messages>>

\* The handler of a connection to peer_id reports a response to a request it was given
HandlerResponds(peer_id, conn_id, id, response) ==
    /\ <<peer_id, id>> \in handed
    /\ inject_event(peer_id, conn_id, ReceivedResponse(id, response))

NextHandler ==
    \/ /\ Room(MaxQueued)
       /\ \E p \in PeerIds, i \in RequestIds, d \in Payloads :
             send_request(p, i, RequestStatus(d))
    \/ /\ Room(MaxQueued)
       /\ \E p \in PeerIds, c \in ConnectionIds, i \in RequestIds, d \in Payloads :
             HandlerResponds(p, c, i, StatusResponse(d))
    \/ Poll
    \/ HandlerTakes

SpecHandler == Init /\ [][NextHandler]_vars

\* A ResponseReceived to a request that no handler was given
IsUnrequested(event) ==
    event.kind = "ResponseReceived" /\ <<event.peer_id, event.id>> \notin handed

-----------------------------------------------------------------------------
(* Claims about subscribe followed by unsubscribe, under SpecSubscribe: the *)
(* prior subscription set is that of any reachable state.                   *)

\* The shared subscription set after subscribe(topic) and then unsubscribe(topic)
AfterSubscribeUnsubscribe(topic) ==
    subscriptions_remove(
        subscriptions_insert(network_globals.gossipsub_subscriptions, topic), topic)

\* C17 as stated: for every topic and every prior subscription set, subscribe(t)
\* followed by unsubscribe(t) leaves the shared subscription set as it was.
C17_SubscribeUnsubscribeRestores ==
    \A t \in Topics :
        AfterSubscribeUnsubscribe(t) = network_globals.gossipsub_subscriptions

\* C17 amended: subscribe(t) followed by unsubscribe(t) leaves the prior set without
\* t; this is the prior set exactly when t was not subscribed before the two calls.
C17_SubscribeUnsubscribeRemoves ==
    \A t \in Topics :
        LET prior == network_globals.gossipsub_subscriptions
        IN  /\ \A u \in Topics : u \in AfterSubscribeUnsubscribe(t) <=> (u \in prior /\ u # t)
            /\ AfterSubscribeUnsubscribe(t) = prior <=> t \notin prior

\* Both topics are subscribed and the latest call was accepted by the engine: from
\* here subscribe(t) and unsubscribe(t) end without t.
C17_Witness ==
    /\ network_globals.gossipsub_subscriptions = Topics
    /\ ret = Returned(TRUE)

-----------------------------------------------------------------------------
(* SpecConvert: the application sends requests and responses of the public  *)
(* types, which are converted to the RPC types, and peers send Status       *)
(* requests, which are surfaced in the public type.                         *)

NextConvert ==
    \/ /\ Room(MaxQueued)
       /\ \E p \in PeerIds, i \in RequestIds, r \in Requests : send_request(p, i, r)
    \/ /\ Room(MaxQueued)
       /\ \E p \in PeerIds, i \in PeerRequestIds, r \in Responses :
             send_successful_response(p, i, r)
    \/ /\ Room(MaxQueued)
       /\ \E p \in PeerIds, e \in ErrorCodes : send_error_reponse(p, <<1, 7>>, e, "refused")
    \/ /\ Room(MaxQueued)
       /\ \E p \in PeerIds, d \in Payloads : inject_event(p, 2, ReceivedRequest(9, Status(d)))
    \/ Poll
    \/ ResultTaken

SpecConvert == Init /\ [][NextConvert]_vars

\* The public request that on_rpc_event surfaces for an inbound RPC request
Surfaced(peer_id, id, request) ==
    LET s == on_rpc_request(Self, peer_id, id[1], id[2], request)
    IN  s.events[Len(s.events)].request

\* C18: the conversions from the public types keep the variant and the payload:
\* Request::Status(b) becomes RPCRequest::Status(b), Request::Goodbye(b) becomes
\* RPCRequest::Goodbye(b), Response::Status(b) becomes Success(RPCResponse::Status(b));
\* an inbound RPCRequest::Status(b) is surfaced as Request::Status(b), so the round
\* trip of Request::Status(b) is the identity, in whatever state it is made.
C18_ConversionsPreservePayload ==
    \A b \in Payloads :
        /\ RPCRequest_from(RequestStatus(b)) = Status(b)
        /\ RPCRequest_from(RequestGoodbye(b)) = Goodbye(b)
        /\ RPCCodedResponse_from(ResponseStatus(b)) = Success(StatusResponse(b))
        /\ \A p \in PeerIds, i \in PeerRequestIds :
              Surfaced(p, i, RPCRequest_from(RequestStatus(b))) = RequestStatus(b)

\* poll returned a converted Goodbye request and a converted Status response is
\* queued behind it.
C18_Witness ==
    /\ ret = NotifyHandler("P", Any, Delegate("RPC", SendRequest("42", Goodbye(<<170>>))))
    /\ mothra_rpc = <<NotifyHandler("Q", One(1),
                          SendResponse(7, Success(StatusResponse(<<17>>))))>>

-----------------------------------------------------------------------------
(* Claims about the gossip events, under SpecSubscribe.                     *)

IsGsSubscribed(action) == action.event.gs = "Subscribed"
IsPeerSubscribed(event) == event.kind = "PeerSubscribed"

\* The gossip events a poll starting now hands to on_gossip_event, in order
GossipDispatched == SubSeq(gossipsub, 1, LeadingEvents(gossipsub))

-----------------------------------------------------------------------------
(* SpecIdentify: the identify sub-behaviour reports the info received from  *)
(* peers, with listen-address lists shorter and longer than the bound, and  *)
(* the infos it sent and the errors it met.                                 *)

MaxListenAddrs == 12

\* IdentifyEvent
IdentifyReceived(peer_id, listen_addrs) ==
    [id_event |-> "Received", peer_id |-> peer_id, listen_addrs |-> listen_addrs]
IdentifySent(peer_id) == [id_event |-> "Sent", peer_id |-> peer_id]
IdentifyError(peer_id) == [id_event |-> "Error", peer_id |-> peer_id]

\* Lists of n distinct addresses, in ascending and in descending order
ListenAddrs ==
    {[i \in 1..n |-> i] : n \in 0..MaxListenAddrs}
        \cup {[i \in 1..n |-> n + 1 - i] : n \in 0..MaxListenAddrs}

NextIdentify ==
    \/ /\ Room(MaxQueued)
       /\ \E p \in PeerIds, a \in ListenAddrs :
             IdentifyReady(GenerateEvent(IdentifyReceived(p, a)))
    \/ /\ Room(MaxQueued)
       /\ \E p \in PeerIds : IdentifyReady(GenerateEvent(IdentifySent(p)))
    \/ /\ Room(MaxQueued)
       /\ \E p \in PeerIds : IdentifyReady(GenerateEvent(IdentifyError(p)))
    \/ /\ Room(MaxQueued)
       /\ IdentifyReady(NotifyHandler("Q", Any, [identify_push |-> "info"]))
    \/ Poll
    \/ ResultTaken

SpecIdentify == Init /\ [][NextIdentify]_vars

IsIdentifyReceived(action) == action.event.id_event = "Received"

\* The identify events a poll starting now hands to on_identify_event, in order
IdentifyDispatched == SubSeq(identify, 1, LeadingEvents(identify))

\* The call the peer manager is owed for a Received event: the first ten addresses
IdentifyCallFor(action) ==
    LET addrs == action.event.listen_addrs
        kept == IF Len(addrs) < 10 THEN Len(addrs) ELSE 10
    IN  [fn |-> "identify", peer_id |-> action.event.peer_id, proto |-> "", error |-> "",
         listen_addrs |-> [i \in 1..kept |-> addrs[i]]]

\* C20: for every identify Received event with n listen addresses the peer manager's
\* identify is called once, with that peer and the first min(n, 10) addresses in
\* their order; Sent and Error events call nothing, and a poll that dispatches only
\* such events changes nothing but the identify queue.
C20_IdentifyAddressesTruncated ==
    [][PollStep /\ GossipsubQuiet /\ RpcQuiet =>
        LET received == SelectSeq(IdentifyDispatched, IsIdentifyReceived)
        IN  /\ pm_calls' = [i \in DOMAIN received |-> IdentifyCallFor(received[i])]
            /\ events' = events
            /\ peers_to_dc' = peers_to_dc
            /\ mothra_rpc' = mothra_rpc
            /\ identify' = SubSeq(identify, LeadingEvents(identify) + 2, Len(identify))]_vars

\* A list of twelve addresses in descending order was cut to its first ten.
C20_Witness ==
    /\ pm_calls # <<>>
    /\ pm_calls[1].fn = "identify"
    /\ pm_calls[1].listen_addrs = [i \in 1..10 |-> 13 - i]

-----------------------------------------------------------------------------
(* SpecConnect: peers connect, and the handlers report the responses to the *)
(* metadata requests and to requests of the application, and the failures   *)
(* of both.                                                                 *)

NextConnect ==
    \/ /\ Room(MaxQueued)
       /\ \E p \in PeerIds : inject_connected(p)
    \/ /\ Room(MaxQueued)
       /\ \E p \in PeerIds, i \in RequestIds, d \in Payloads :
             inject_event(p, 1, ReceivedResponse(i, MetaDataResponse(d)))
    \/ /\ Room(MaxQueued)
       /\ \E p \in PeerIds, i \in RequestIds, d \in Payloads :
             inject_event(p, 1, ReceivedResponse(i, StatusResponse(d)))
    \/ /\ Room(MaxQueued)
       /\ \E p \in PeerIds, i \in RequestIds, e \in RPCErrors :
             inject_event(p, 1, Outbound(i, "MetaData", e))
    \/ Poll
    \/ ResultTaken

SpecConnect == Init /\ [][NextConnect]_vars

\* The response to a request carrying the sentinel id, or the failure of one
IsOwnReply(message) ==
    IF message.event.ok
    THEN message.event.received = "Response" /\ message.event.id = Behaviour
    ELSE message.event.dir = "Outbound" /\ message.event.id = Behaviour
IsNotOwnReply(message) == ~IsOwnReply(message)

\* C21: every inject_connected(peer) appends exactly NotifyHandler{peer, Any,
\* Request(sentinel, MetaData)} to the RPC queue and changes nothing else; and the
\* response to a sentinel request and its failure are never surfaced: a poll appends
\* at most one public event per other message it dispatched, none with the sentinel
\* id, and none at all when it dispatched replies to sentinel requests only.
C21_ConnectRequestsMetaData ==
    [][/\ \A p \in PeerIds :
             inject_connected(p) =>
                /\ mothra_rpc' =
                      mothra_rpc \o <<NotifyHandler(p, Any, SendRequest(Behaviour, MetaDataRequest))>>
                /\ Len(mothra_rpc') = Len(mothra_rpc) + 1
                /\ UNCHANGED <<gossipsub, identify, peer_manager, events, peers_to_dc,
                               network_globals>>
       /\ PollStep =>
             LET others == SelectSeq(Dispatched, IsNotOwnReply)
             IN  /\ Len(Appended) <= Len(others)
                 /\ \A i \in DOMAIN Appended : ~IsSentinelEvent(Appended[i])
                 /\ others = <<>> => Appended = <<>>]_vars

\* poll dispatched the failure of the metadata request to Q, surfaced nothing, and
\* returned the metadata request that the connection of P enqueued.
C21_Witness ==
    /\ ret = NotifyHandler("P", Any, Delegate("RPC", SendRequest(Behaviour, MetaDataRequest)))
    /\ pm_calls = <<handle_rpc_error("Q", "MetaData", "StreamTimeout")>>
    /\ events = <<>>
    /\ mothra_rpc = <<>>

-----------------------------------------------------------------------------
(* Claims about the failures of inbound substreams, under SpecOutbound.     *)

IsInboundError(message) == ~message.event.ok /\ message.event.dir = "Inbound"
IsNotInboundError(message) == ~IsInboundError(message)

\* C22: for every HandlerErr::Inbound{id, proto, error} of peer P, HandlerRejected
\* included, handle_rpc_error(P, proto, error) is called once and nothing else
\* changes: a poll makes one handle_rpc_error call per error it dispatched, in
\* order, the public events it appends are those owed to the other messages, and
\* a poll that dispatches inbound errors only makes exactly these calls, appends
\* no public event, enqueues no RPC action and leaves the pending-disconnect queue.
C22_InboundErrorOnlyNotifies ==
    [][PollStep /\ GossipsubQuiet =>
        LET inbound == SelectSeq(Dispatched, IsInboundError)
            others == SelectSeq(Dispatched, IsNotInboundError)
            told == [i \in DOMAIN inbound |->
                        handle_rpc_error(inbound[i].peer_id, inbound[i].event.proto,
                                         inbound[i].event.error)]
        IN  /\ Appended = Flatten([i \in DOMAIN others |-> OwedToRpc(others[i])])
            /\ Enqueued = <<>>
            /\ peers_to_dc' = peers_to_dc
            /\ LET errors == SelectSeq(Dispatched, IsError)
               IN  /\ Len(SelectSeq(pm_calls', IsHandleRpcError)) = Len(errors)
                   /\ \A i \in DOMAIN errors :
                         IsInboundError(errors[i]) =>
                            SelectSeq(pm_calls', IsHandleRpcError)[i]
                               = handle_rpc_error(errors[i].peer_id, errors[i].event.proto,
                                                  errors[i].event.error)
            /\ others = <<>> =>
                  /\ pm_calls' = told
                  /\ events' = IF ReturnedQueuedEvent THEN Tail(events) ELSE events]_vars

\* poll dispatched two inbound errors of P, one of them HandlerRejected, told the
\* peer manager of each and had nothing else to do.
C22_Witness ==
    /\ pm_calls = <<handle_rpc_error("P", "Status", "HandlerRejected"),
                    handle_rpc_error("P", "Goodbye", "StreamTimeout")>>
    /\ ret = Pending
    /\ events = <<>>
    /\ mothra_rpc = <<>>
    /\ peers_to_dc = <<>>

-----------------------------------------------------------------------------
(* Claims about the Status responses, under SpecConnect.                    *)

IsStatusResponse(message) ==
    /\ message.event.ok
    /\ message.event.received = "Response"
    /\ message.event.response.resp = "Status"
IsForApplication(message) == message.event.id # Behaviour
IsResponseReceived(event) == event.kind = "ResponseReceived"

\* C23: for every Status(msg) response of peer P to request id R, peer_statusd(P) is
\* called; when R is not the sentinel one ResponseReceived{P, R, Status(msg)} is
\* appended to the public queue, in the order of the responses, and when R is the
\* sentinel nothing is appended: a poll that dispatches Status responses to sentinel
\* requests only tells the peer manager of each and appends nothing.
C23_StatusResponsePropagated ==
    [][PollStep =>
        LET statuses == SelectSeq(Dispatched, IsStatusResponse)
            surfaced == SelectSeq(statuses, IsForApplication)
        IN  /\ SelectSeq(pm_calls', IsPeerStatusd)
                  = [i \in DOMAIN statuses |-> peer_statusd(statuses[i].peer_id)]
            /\ SelectSeq(Appended, IsResponseReceived)
                  = [i \in DOMAIN surfaced |->
                        ResponseReceived(surfaced[i].peer_id, surfaced[i].event.id,
                                         ResponseStatus(surfaced[i].event.response.data))]
            /\ (Len(statuses) = Len(Dispatched) /\ surfaced = <<>>) =>
                  /\ Appended = <<>>
                  /\ events' = IF ReturnedQueuedEvent THEN Tail(events) ELSE events]_vars

\* poll dispatched a Status response of Q to a sentinel request and one of P to
\* request 42: the peer manager heard of both and only the second was surfaced.
C23_Witness ==
    /\ pm_calls = <<peer_statusd("Q"), peer_statusd("P")>>
    /\ ret = GenerateEvent(ResponseReceived("P", "42", ResponseStatus(<<170>>)))
    /\ events = <<>>

-----------------------------------------------------------------------------
(* SpecApi: the application uses the public methods, with ids of its own    *)
(* and with the sentinel, while peers connect and send Ping and MetaData    *)
(* requests and the peer manager asks for pings and metadata.               *)

NextApi ==
    \/ /\ Room(MaxQueued)
       /\ \E p \in PeerIds, i \in RequestIds, r \in Requests : send_request(p, i, r)
    \/ /\ Room(MaxQueued)
       /\ \E i \in PeerRequestIds, r \in Responses : send_successful_response("P", i, r)
    \/ /\ Room(MaxQueued)
       /\ \E e \in ErrorCodes : send_error_reponse("Q", <<1, 7>>, e, "refused")
    \/ /\ Room(MaxQueued)
       /\ \E p \in PeerIds : inject_connected(p)
    \/ /\ Room(MaxQueued)
       /\ \E p \in PeerIds, r \in ControlRequests : inject_event(p, 1, ReceivedRequest(7, r))
    \/ /\ Room(MaxQueued)
       /\ \E p \in PeerIds, k \in {"Ping", "MetaData"} : PeerManagerReady(PmEvent(k, p))
    \/ Poll
    \/ ResultTaken

SpecApi == Init /\ [][NextApi]_vars

\* An RPC action carrying a Ping or MetaData request or a Pong or MetaData response
IsControlAction(action) ==
    /\ action.action = "NotifyHandler"
    /\ IF action.event.send = "Request"
       THEN action.event.request.method \in {"Ping", "MetaData"}
       ELSE /\ action.event.response.coded = "Success"
            /\ action.event.response.response.resp \in {"Pong", "MetaData"}

\* C24: no call of send_request, send_successful_response or _send_error_reponse
\* enqueues an RPC action carrying a Ping or MetaData request or a Pong or MetaData
\* response: a step that is not a poll and adds such an action is inject_connected,
\* and a poll adds one per inbound Ping or MetaData request it dispatched and one per
\* Ping or MetaData command of the peer manager it consumed.
C24_ControlActionsNotFromPublicApi ==
    [][/\ ~PollStep =>
             \/ SelectSeq(mothra_rpc', IsControlAction) = SelectSeq(mothra_rpc, IsControlAction)
             \/ \E p \in PeerIds : inject_connected(p)
       /\ PollStep =>
             Len(SelectSeq(Enqueued, IsControlAction))
                = Len(SelectSeq(Dispatched, IsAnswered))
                     + (IF ReachesCustomPoll /\ PendingAtCustomPoll = <<>>
                        THEN LeadingPings(peer_manager)
                        ELSE 0)]_vars

\* The application sent a Goodbye under the sentinel id and an error response: poll
\* returned the request as a Goodbye and the response is queued as the error.
C24_Witness ==
    /\ ret = NotifyHandler("P", Any, Delegate("RPC", SendRequest(Behaviour, Goodbye(<<17>>))))
    /\ mothra_rpc = <<NotifyHandler("Q", One(1),
                          SendResponse(7, from_error_code("ServerError", "refused")))>>

-----------------------------------------------------------------------------
(* SpecGlobals: every operation of the behaviour is in use: the application *)
(* subscribes, unsubscribes, publishes, forwards messages and sends         *)
(* requests and responses, peers connect and send requests and responses,   *)
(* and gossipsub, identify and the peer manager deliver their events.       *)

NextGlobals ==
    \/ /\ ret = NoCall
       /\ \E t \in Topics : subscribe(t)
    \/ /\ ret = NoCall
       /\ \E t \in Topics : unsubscribe(t)
    \/ /\ Room(MaxQueued)
       /\ publish("blocks", <<17>>)
    \/ /\ Room(MaxQueued)
       /\ propagate_message("P", "m1")
    \/ /\ Room(MaxQueued)
       /\ send_request("P", "42", RequestStatus(<<17>>))
    \/ /\ Room(MaxQueued)
       /\ send_successful_response("P", <<1, 7>>, ResponseStatus(<<17>>))
    \/ /\ Room(MaxQueued)
       /\ send_error_reponse("Q", <<1, 7>>, "ServerError", "refused")
    \/ /\ Room(MaxQueued)
       /\ inject_connected("Q")
    \/ /\ Room(MaxQueued)
       /\ \E r \in {Ping(<<17>>), MetaDataRequest, Goodbye(<<17>>), Status(<<17>>)} :
             inject_event("P", 1, ReceivedRequest(7, r))
    \/ /\ Room(MaxQueued)
       /\ \E r \in {Pong(<<17>>), MetaDataResponse(<<17>>), StatusResponse(<<17>>)} :
             inject_event("Q", 1, ReceivedResponse("42", r))
    \/ /\ Room(MaxQueued)
       /\ GossipsubReady(GenerateEvent(GsMessage("P", "m1", <<topic_into("blocks")>>, <<17>>)))
    \/ /\ Room(MaxQueued)
       /\ IdentifyReady(GenerateEvent(IdentifyReceived("P", <<1, 2>>)))
    \/ /\ Room(MaxQueued)
       /\ \E e \in {m \in PeerManagerEvents : m.arg # "Q"} : PeerManagerReady(e)
    \/ Poll
    \/ ResultTaken

SpecGlobals == Init /\ [][NextGlobals]_vars

\* C25: of the shared NetworkGlobals the behaviour writes the subscription set only:
\* no step changes the metadata, the ping payload, the fork id, the local ENR, the
\* peer id, the listen addresses or the ports, and a step that changes the
\* subscription set is a subscribe or an unsubscribe.
C25_OnlySubscriptionsWritten ==
    [][/\ network_globals'.meta_data = network_globals.meta_data
       /\ network_globals'.ping_data = network_globals.ping_data
       /\ network_globals'.fork_id = network_globals.fork_id
       /\ network_globals'.local_enr = network_globals.local_enr
       /\ network_globals'.peer_id = network_globals.peer_id
       /\ network_globals'.listen_multiaddrs = network_globals.listen_multiaddrs
       /\ network_globals'.listen_port_tcp = network_globals.listen_port_tcp
       /\ network_globals'.listen_port_udp = network_globals.listen_port_udp
       /\ network_globals'.gossipsub_subscriptions # network_globals.gossipsub_subscriptions =>
             \E t \in Topics : subscribe(t) \/ unsubscribe(t)]_vars

\* After a subscribe, a poll that dispatched a Goodbye, an identify info and a gossip
\* message: the subscription set holds the topic and the other globals are as built.
C25_Witness ==
    /\ network_globals.gossipsub_subscriptions = {"blocks"}
    /\ network_globals.listen_multiaddrs = <<>>
    /\ network_globals.meta_data = meta_data
    /\ ret = NotifyHandler("P", All, Shutdown(None))
    /\ Len(pm_calls) = 2
    /\ events # <<>>

-----------------------------------------------------------------------------
(* Claims about what a poll leaves queued, under SpecControl.               *)

\* C26: whenever poll returns Pending, the RPC behaviour's action queue, the public
\* event queue and the pending-disconnect queue are all empty, also when the peer
\* manager yielded Ping or MetaData commands during that poll.
C26_PendingLeavesNothingQueued ==
    ret = Pending =>
        /\ mothra_rpc = <<>>
        /\ events = <<>>
        /\ peers_to_dc = <<>>

-----------------------------------------------------------------------------
(* SpecShutdown: peers say Goodbye and the peer manager asks for            *)
(* disconnects and pings while the sub-behaviours have actions for the      *)
(* swarm; poll is called again and again.                                   *)

NextShutdown ==
    \/ /\ Room(MaxDisconnectQueued)
       /\ \E p \in PeerIds : inject_event(p, 1, ReceivedRequest(7, Goodbye(<<17>>)))
    \/ /\ Room(MaxDisconnectQueued)
       /\ \E p \in PeerIds : PeerManagerReady(PmEvent("DisconnectPeer", p))
    \/ /\ Room(MaxDisconnectQueued)
       /\ PeerManagerReady(PmEvent("Ping", "Q"))
    \/ /\ Room(MaxDisconnectQueued)
       /\ inject_connected("Q")
    \/ /\ Room(MaxDisconnectQueued)
       /\ GossipsubReady(NotifyHandler("Q", Any, [gossip_rpc |-> "graft"]))
    \/ /\ Room(MaxDisconnectQueued)
       /\ IdentifyReady(NotifyHandler("Q", Any, [identify_push |-> "info"]))
    \/ Poll
    \/ ResultTaken

\* Poll changes the state unless nothing is queued and Pending was returned already
PollChanges == Queued > 0 \/ ret # Pending \/ pm_calls # <<>>

\* poll is called again and again: weak fairness of Poll, with its enabling
\* condition written out
PollRepeated == []<>(~PollChanges) \/ []<><<PollStep>>_vars

SpecShutdown == Init /\ [][NextShutdown]_vars /\ PollRepeated

\* The peers a poll starting now pushes onto the pending-disconnect queue
Pushed ==
    (IF GossipsubQuiet THEN GoodbyePeers ELSE <<>>)
        \o (IF ReturnedGoodbye THEN <<ret'.peer_id>> ELSE <<>>)

\* Peer p is in the pending-disconnect queue
IsPendingDisconnect(p) == \E i \in DOMAIN peers_to_dc : peers_to_dc[i] = p

\* C27: the pending-disconnect queue is changed by polls only; a poll appends the
\* peers whose Goodbye it dispatched and the peer of the DisconnectPeer command it
\* consumed, and removes an entry only when it returns NotifyHandler{peer, All,
\* Shutdown(None)} for it, which is the head of the queue, one per poll; and if the
\* sub-behaviours eventually stop returning actions while poll keeps being called,
\* every queued peer is eventually shut down.
C27_QueuedPeerShutDown ==
    /\ [][/\ ~PollStep => peers_to_dc' = peers_to_dc
          /\ PollStep =>
                LET queue == peers_to_dc \o Pushed
                IN  IF ReturnedShutdown
                    THEN /\ queue # <<>>
                         /\ ret' = NotifyHandler(Head(queue), All, Shutdown(None))
                         /\ peers_to_dc' = Tail(queue)
                    ELSE peers_to_dc' = queue]_vars
    /\ <>[][~(PollStep /\ ReturnedDelegate)]_vars =>
          \A p \in PeerIds :
              IsPendingDisconnect(p) ~> (ret = NotifyHandler(p, All, Shutdown(None)))

\* P and Q were queued in this order: poll returned the shutdown of P and Q waits.
C27_Witness ==
    /\ ret = NotifyHandler("P", All, Shutdown(None))
    /\ peers_to_dc = <<"Q">>

-----------------------------------------------------------------------------
(* SpecDrain: gossip messages and Status requests put events on the public  *)
(* queue while peers say Goodbye, the peer manager issues commands and the  *)
(* sub-behaviours have actions for the swarm; poll is called again and      *)
(* again and the swarm takes what it returns.                               *)

NextDrain ==
    \/ /\ Room(MaxQueued)
       /\ GossipsubReady(GenerateEvent(GsMessage("P", "m1", <<topic_into("blocks")>>, <<17>>)))
    \/ /\ Room(MaxQueued)
       /\ inject_event("P", 2, ReceivedRequest(9, Status(<<170>>)))
    \/ /\ Room(MaxQueued)
       /\ inject_event("Q", 1, ReceivedRequest(7, Goodbye(<<17>>)))
    \/ /\ Room(MaxQueued)
       /\ \E k \in {"Dial", "Status", "Ping", "DisconnectPeer"} : PeerManagerReady(PmEvent(k, "Q"))
    \/ /\ Room(MaxQueued)
       /\ GossipsubReady(NotifyHandler("Q", Any, [gossip_rpc |-> "graft"]))
    \/ /\ Room(MaxQueued)
       /\ inject_connected("Q")
    \/ Poll
    \/ ResultTaken

SpecDrain == Init /\ [][NextDrain]_vars /\ PollRepeated /\ WF_vars(ResultTaken)

\* The public events that arise under SpecDrain
DrainEvents ==
    {PubsubMessage("m1", "P", <<topic_into("blocks")>>, <<17>>),
     RequestReceived("P", <<2, 9>>, RequestStatus(<<170>>))}

\* Event e is in the public queue
IsQueuedEvent(e) == \E i \in DOMAIN events : events[i] = e

\* poll returned an action of a sub-behaviour or of the peer manager
ReturnedOutward ==
    /\ PollStep
    /\ \/ ReturnedDelegate
       \/ ReturnedGoodbye
       \/ ret'.action \in {"DialPeer", "DialAddress", "ReportObservedAddr"}
       \/ ret'.action = "GenerateEvent" /\ ret'.event.kind = "StatusPeer"

\* The public queue is popped only by a poll in which no sub-behaviour returned an
\* action, the pending-disconnect queue was empty and the peer manager had only Ping
\* and MetaData commands before it was Pending; that poll returns the head
PoppedOnlyAtTheEnd ==
    /\ ~PollStep => events' = events
    /\ PollStep =>
          IF ReturnedQueuedEvent
          THEN /\ ReachesCustomPoll
               /\ PendingAtCustomPoll = <<>>
               /\ LeadingPings(peer_manager) = Len(peer_manager)
               /\ peer_manager' = <<>>
               /\ ret'.event = Head(events \o Owed)
               /\ events' = Tail(events \o Owed)
          ELSE events' = events \o Owed

\* C28 as stated: the public queue is popped only at the end of a poll, and if the
\* sub-behaviours and the peer manager eventually stop yielding actions for the
\* swarm while poll keeps being called, every queued event is eventually returned.
C28_QueuedEventReturned ==
    /\ [][PoppedOnlyAtTheEnd]_vars
    /\ <>[][~ReturnedOutward]_vars =>
          \A e \in DrainEvents : IsQueuedEvent(e) ~> (ret = GenerateEvent(e))

\* C28 amended: the same, under the further hypothesis that polls eventually stop
\* returning Shutdown(None), that is, that peers eventually stop saying Goodbye.
C28_QueuedEventReturnedOnceDisconnectsStop ==
    /\ [][PoppedOnlyAtTheEnd]_vars
    /\ <>[][~ReturnedOutward /\ ~(PollStep /\ ReturnedShutdown)]_vars =>
          \A e \in DrainEvents : IsQueuedEvent(e) ~> (ret = GenerateEvent(e))

\* The peer manager had a Ping command and then nothing: poll enqueued the ping and
\* returned the queued gossip message.
C28_Witness ==
    /\ ret = GenerateEvent(PubsubMessage("m1", "P", <<topic_into("blocks")>>, <<17>>))
    /\ mothra_rpc = <<NotifyHandler("Q", Any, SendRequest(Behaviour, Ping(ping_data)))>>
    /\ peer_manager = <<>>
    /\ events = <<>>

-----------------------------------------------------------------------------
(* Claims about the inbound MetaData requests, under Spec.                  *)

\* The response the behaviour owes to an inbound MetaData request
MetaDataFor(message) ==
    NotifyHandler(message.peer_id, One(message.conn_id),
                  SendResponse(message.event.substream_id,
                               Success(MetaDataResponse(network_globals.meta_data))))

\* C29: every inbound MetaData request of peer P on connection C, substream S is
\* answered by one NotifyHandler{P, One(C), Response(S, Success(MetaData(local
\* metadata)))}; a poll that dispatches MetaData requests only enqueues exactly these
\* responses, appends no public event, leaves the pending-disconnect queue alone and
\* calls nothing on the peer manager.
C29_MetaDataAnsweredWithLocalMetaData ==
    [][PollStep /\ GossipsubQuiet =>
        LET asked == SelectSeq(Dispatched, IsAnswered)
            answers == SelectSeq(Enqueued, IsResponseAction)
        IN  /\ Len(answers) = Len(asked)
            /\ \A i \in DOMAIN asked :
                  IsMetaDataRequest(asked[i]) => answers[i] = MetaDataFor(asked[i])
            /\ (/\ Dispatched # <<>>
                /\ \A i \in DOMAIN Dispatched : IsMetaDataRequest(Dispatched[i]))
                  => /\ Enqueued = [i \in DOMAIN Dispatched |-> MetaDataFor(Dispatched[i])]
                     /\ events' = events
                     /\ peers_to_dc' = peers_to_dc
                     /\ pm_calls' = <<>>]_vars

\* poll dispatched two MetaData requests, of P and of Q: it returned the answer to
\* P and the answer to Q is queued.
C29_Witness ==
    /\ ret = NotifyHandler("P", One(1),
                 Delegate("RPC", SendResponse(7, Success(MetaDataResponse(meta_data)))))
    /\ mothra_rpc = <<NotifyHandler("Q", One(2),
                          SendResponse(9, Success(MetaDataResponse(meta_data))))>>
    /\ events = <<>>
    /\ peers_to_dc = <<>>
    /\ pm_calls = <<>>

-----------------------------------------------------------------------------
(* Claims about the peer manager's Ping and MetaData commands, under        *)
(* SpecDisconnect.                                                          *)

\* The request the behaviour issues for a Ping or MetaData command
RequestFor(command) ==
    IF command.pm = "Ping"
    THEN NotifyHandler(command.arg, Any, SendRequest(Behaviour, Ping(network_globals.ping_data)))
    ELSE NotifyHandler(command.arg, Any, SendRequest(Behaviour, MetaDataRequest))

\* What custom_poll returns for the command it stops at
ReturnFor(command) ==
    CASE command.pm = "Dial" -> DialPeer(command.arg, "Disconnected")
      [] command.pm = "SocketUpdated" -> ReportObservedAddr(command.arg)
      [] command.pm = "Status" -> GenerateEvent(StatusPeer(command.arg))
      [] command.pm = "DisconnectPeer" ->
            NotifyHandler(command.arg, Any, Shutdown(Some(Behaviour, Goodbye(<<>>))))

\* An RPC action that carries a request
IsRequestAction(action) == action.action = "NotifyHandler" /\ action.event.send = "Request"

\* C30: a poll that polls the peer manager enqueues, for each Ping(peer) and
\* MetaData(peer) command at the head of its events, exactly NotifyHandler{peer, Any,
\* Request(sentinel, Ping(local ping payload))} or NotifyHandler{peer, Any,
\* Request(sentinel, MetaData)}, in order, goes on to the next event in the same
\* invocation and returns what that event asks for, or the head of the public queue
\* or Pending when there is none; the requests it enqueued stay in the RPC queue. A
\* poll that does not poll the peer manager enqueues no request.
C30_PingCommandsEnqueueAndContinue ==
    [][PollStep =>
        IF ReachesCustomPoll /\ PendingAtCustomPoll = <<>>
        THEN LET n == LeadingPings(peer_manager)
             IN  /\ mothra_rpc' = [i \in 1..n |-> RequestFor(peer_manager[i])]
                 /\ ~ReturnedRpcAction
                 /\ IF n < Len(peer_manager)
                    THEN /\ ret' = ReturnFor(peer_manager[n + 1])
                         /\ peer_manager' = SubSeq(peer_manager, n + 2, Len(peer_manager))
                    ELSE /\ peer_manager' = <<>>
                         /\ ret' = IF events \o Owed # <<>>
                                   THEN GenerateEvent(Head(events \o Owed))
                                   ELSE Pending
        ELSE /\ peer_manager' = peer_manager
             /\ SelectSeq(RpcOut, IsRequestAction) = SelectSeq(mothra_rpc, IsRequestAction)]_vars

\* One poll consumed Ping(P), MetaData(Q) and Dial(Q): both requests are queued and
\* the dial was returned.
C30_Witness ==
    /\ ret = DialPeer("Q", "Disconnected")
    /\ mothra_rpc = <<NotifyHandler("P", Any, SendRequest(Behaviour, Ping(ping_data))),
                      NotifyHandler("Q", Any, SendRequest(Behaviour, MetaDataRequest))>>
    /\ peer_manager = <<>>

-----------------------------------------------------------------------------
(* The peer manager's Dial, SocketUpdated and Status commands, under        *)
(* SpecDisconnect.                                                          *)

\* The number of peer-manager events the step consumed
Consumed == Len(peer_manager) - Len(peer_manager')

IsReturningCommand(command) == command.pm \in {"Dial", "SocketUpdated", "Status"}

\* C31: a Dial(peer) command makes poll return DialPeer{peer, Disconnected},
\* SocketUpdated(addr) ReportObservedAddr(addr) and Status(peer)
\* GenerateEvent(StatusPeer(peer)), in the poll that consumes the command; the
\* command is the last one that poll consumes and leaves the queues as the poll's
\* earlier work made them: the RPC queue holds only the requests of the Ping and
\* MetaData commands consumed before it, the public queue the events owed to what
\* was dispatched, behind those queued, and the pending-disconnect queue is unchanged.
C31_CommandsReturnedDirectly ==
    [][PollStep /\ Consumed > 0 /\ IsReturningCommand(peer_manager[Consumed]) =>
        LET command == peer_manager[Consumed]
        IN  /\ ret' = CASE command.pm = "Dial" -> DialPeer(command.arg, "Disconnected")
                    [] command.pm = "SocketUpdated" -> ReportObservedAddr(command.arg)
                    [] command.pm = "Status" -> GenerateEvent(StatusPeer(command.arg))
            /\ peer_manager' = SubSeq(peer_manager, Consumed + 1, Len(peer_manager))
            /\ mothra_rpc' = [i \in 1..(Consumed - 1) |-> RequestFor(peer_manager[i])]
            /\ events' = events \o Owed
            /\ peers_to_dc' = peers_to_dc]_vars

\* poll returned the observed address of a SocketUpdated command that followed a Ping
\* command, with a Status request dispatched by the same poll: the ping request and
\* the RequestReceived event are queued and no disconnect is pending.
C31_Witness ==
    /\ ret = ReportObservedAddr("addr1")
    /\ Len(mothra_rpc) = 1
    /\ Len(events) = 1
    /\ peers_to_dc = <<>>

-----------------------------------------------------------------------------
(* SpecTranslate: the gossipsub and identify sub-behaviours yield every     *)
(* kind of action, for either peer and for any or one connection, and the   *)
(* RPC sub-behaviour holds requests, responses and a peer's Ping.           *)

SubBehaviourActions(payload) ==
    {NotifyHandler(p, h, payload) : p \in PeerIds, h \in {Any, One(2)}}
        \cup {DialAddress("addr1"), DialPeer("P", "Always"), ReportObservedAddr("addr1")}

NextTranslate ==
    \/ /\ Room(MaxDisconnectQueued)
       /\ \E a \in SubBehaviourActions([gossip_rpc |-> "graft"]) : GossipsubReady(a)
    \/ /\ Room(MaxDisconnectQueued)
       /\ GossipsubReady(GenerateEvent(GsSubscribed("Q", topic_into("blocks"))))
    \/ /\ Room(MaxDisconnectQueued)
       /\ \E a \in SubBehaviourActions([identify_push |-> "info"]) : IdentifyReady(a)
    \/ /\ Room(MaxDisconnectQueued)
       /\ IdentifyReady(GenerateEvent(IdentifyReceived("P", <<1, 2>>)))
    \/ /\ Room(MaxDisconnectQueued)
       /\ send_request("P", "42", RequestStatus(<<17>>))
    \/ /\ Room(MaxDisconnectQueued)
       /\ send_successful_response("Q", <<1, 9>>, ResponseStatus(<<170>>))
    \/ /\ Room(MaxDisconnectQueued)
       /\ inject_event("Q", 2, ReceivedRequest(7, Ping(<<17>>)))
    \/ Poll
    \/ ResultTaken

SpecTranslate == Init /\ [][NextTranslate]_vars

\* A sub-behaviour's action in the composite's action type
Translated(tag, action) ==
    IF action.action = "NotifyHandler"
    THEN [action |-> "NotifyHandler", peer_id |-> action.peer_id, handler |-> action.handler,
          event |-> [handler_in |-> "Delegate", to |-> tag, event |-> action.event]]
    ELSE action

\* The first action for the swarm in a sub-behaviour's queue
FirstOutward(queue) == queue[LeadingEvents(queue) + 1]

\* The answer the RPC queue gets for the first Ping a poll starting now dispatches
FirstPong ==
    LET message == SelectSeq(Dispatched, IsPingRequest)[1]
    IN  NotifyHandler(message.peer_id, One(message.conn_id),
                      SendResponse(message.event.substream_id,
                                   Success(Pong(network_globals.ping_data))))

\* C32: poll returns the first outward action of the first sub-behaviour that has
\* one, content preserved: a NotifyHandler keeps its peer_id and handler target and
\* has its event wrapped in Delegate with the tag of its sub-behaviour (Gossipsub,
\* RPC, Identify), DialAddress, DialPeer and ReportObservedAddr are returned
\* unchanged; and a GenerateEvent of a sub-behaviour is never returned: the events
\* before the action are dispatched, and what poll returns as GenerateEvent is a
\* public event.
C32_SubBehaviourActionsTranslated ==
    [][PollStep =>
        /\ IF ~GossipsubQuiet
           THEN ret' = Translated("Gossipsub", FirstOutward(gossipsub))
           ELSE IF Behind # <<>>
           THEN ret' = Translated("RPC", Head(Behind))
           ELSE IF SelectSeq(Dispatched, IsPingRequest) # <<>>
           THEN ret' = Translated("RPC", FirstPong)
           ELSE IF ~IdentifyQuiet
           THEN ret' = Translated("Identify", FirstOutward(identify))
           ELSE ~ReturnedDelegate
        /\ ret'.action = "GenerateEvent" =>
              /\ "kind" \in DOMAIN ret'.event
              /\ ret'.event = Head(events \o Owed)
        /\ PublicOut = events \o Owed
        /\ GossipsubQuiet /\ RpcQuiet =>
              pm_calls' = [i \in DOMAIN SelectSeq(IdentifyDispatched, IsIdentifyReceived) |->
                              IdentifyCallFor(SelectSeq(IdentifyDispatched, IsIdentifyReceived)[i])]
      ]_vars

\* poll dispatched a gossip Subscribed event and returned the gossipsub action behind
\* it, addressed to one connection of P, as a Delegate to gossipsub; the notice is in
\* the public queue.
C32_Witness ==
    /\ ret = NotifyHandler("P", One(2), Delegate("Gossipsub", [gossip_rpc |-> "graft"]))
    /\ events = <<PeerSubscribed("Q", topic_into("blocks"))>>

-----------------------------------------------------------------------------
(* SpecTargets: every NotifyHandler the behaviour and its RPC sub-behaviour *)
(* create is in use: requests and responses of the application, the request *)
(* on connection, answers to Ping and MetaData requests on either           *)
(* connection, Goodbyes, and the peer manager's Ping, MetaData and          *)
(* DisconnectPeer commands.                                                 *)

NextTargets ==
    \/ /\ Room(MaxQueued)
       /\ \E p \in PeerIds, i \in RequestIds : send_request(p, i, RequestStatus(<<17>>))
    \/ /\ Room(MaxQueued)
       /\ \E i \in PeerRequestIds : send_successful_response("P", i, ResponseStatus(<<170>>))
    \/ /\ Room(MaxQueued)
       /\ \E i \in PeerRequestIds : send_error_reponse("Q", i, "ServerError", "refused")
    \/ /\ Room(MaxQueued)
       /\ \E p \in PeerIds : inject_connected(p)
    \/ /\ Room(MaxQueued)
       /\ \E p \in PeerIds, c \in ConnectionIds,
             r \in {Ping(<<17>>), MetaDataRequest, Goodbye(<<17>>)} :
             inject_event(p, c, ReceivedRequest(7, r))
    \/ /\ Room(MaxQueued)
       /\ \E p \in PeerIds, k \in {"Ping", "MetaData", "DisconnectPeer"} :
             PeerManagerReady(PmEvent(k, p))
    \/ Poll
    \/ ResultTaken

SpecTargets == Init /\ [][NextTargets]_vars

\* The NotifyHandler actions created by the RPC sub-behaviour and by custom_poll that
\* are queued or were just returned, as RPCSend or Shutdown payloads
CoreActions ==
    {mothra_rpc[i] : i \in {j \in DOMAIN mothra_rpc : mothra_rpc[j].action = "NotifyHandler"}}
        \cup (IF ret.action = "NotifyHandler" /\ ret.event.handler_in = "Shutdown"
              THEN {ret}
              ELSE IF ret.action = "NotifyHandler" /\ ret.event.to = "RPC"
              THEN {NotifyHandler(ret.peer_id, ret.handler, ret.event.event)}
              ELSE {})

IsShutdownAction(action) == "handler_in" \in DOMAIN action.event
IsShutdownNone(action) == IsShutdownAction(action) /\ ~action.event.goodbye.some
IsShutdownGoodbye(action) == IsShutdownAction(action) /\ action.event.goodbye.some
IsResponseSent(action) == ~IsShutdownAction(action) /\ action.event.send = "Response"
IsRequestSent(action) == ~IsShutdownAction(action) /\ action.event.send = "Request"

\* C33: among the NotifyHandler actions the behaviour and its RPC sub-behaviour
\* create, target All is used with Shutdown(None) and nothing else and every
\* Shutdown(None) uses All; target One is used with responses and nothing else;
\* every request and the Shutdown carrying the goodbye use Any; and a response is
\* addressed to the connection of its PeerRequestId: the one the application names,
\* or the one the answered request arrived on.
C33_TargetFollowsRole ==
    [][/\ \A a \in CoreActions' :
             /\ a.handler = All <=> IsShutdownNone(a)
             /\ a.handler.target = "One" <=> IsResponseSent(a)
             /\ a.handler = Any <=> IsRequestSent(a) \/ IsShutdownGoodbye(a)
       /\ \A p \in PeerIds, i \in PeerRequestIds :
             (\/ send_successful_response(p, i, ResponseStatus(<<170>>))
              \/ send_error_reponse(p, i, "ServerError", "refused"))
                => /\ mothra_rpc'[Len(mothra_rpc')].handler = One(i[1])
                   /\ mothra_rpc'[Len(mothra_rpc')].event.substream_id = i[2]
                   /\ mothra_rpc'[Len(mothra_rpc')].peer_id = p
       /\ PollStep =>
             LET asked == SelectSeq(Dispatched, IsAnswered)
                 answers == SelectSeq(Enqueued, IsResponseAction)
             IN  /\ Len(answers) = Len(asked)
                 /\ \A k \in DOMAIN asked : answers[k].handler = One(asked[k].conn_id)]_vars

\* poll returned the answer to a Ping that arrived on connection 2, addressed to that
\* connection, and the application's response on connection 1 is queued behind it.
C33_Witness ==
    /\ ret.action = "NotifyHandler"
    /\ ret.handler = One(2)
    /\ ret.event.handler_in = "Delegate"
    /\ ret.event.event.send = "Response"
    /\ \E i \in DOMAIN mothra_rpc :
          /\ mothra_rpc[i].action = "NotifyHandler"
          /\ mothra_rpc[i].handler = One(1)

-----------------------------------------------------------------------------
(* SpecRpc: the RPC sub-behaviour on its own, as the swarm and its owner    *)
(* drive it: requests and responses are submitted, peers connect, the       *)
(* handlers' events are injected, and it is polled.                         *)

\* An RPC::poll that returns the newest item of the queue
rpc_poll_newest(s) ==
    IF s.mothra_rpc # <<>>
    THEN [s |-> [s EXCEPT !.mothra_rpc = SubSeq(@, 1, Len(@) - 1)],
          ret |-> s.mothra_rpc[Len(s.mothra_rpc)]]
    ELSE [s |-> s, ret |-> Pending]

\* RPC::poll
rpc_poll(s) ==
    IF s.mothra_rpc # <<>>
    THEN [s |-> [s EXCEPT !.mothra_rpc = Tail(@)], ret |-> Head(s.mothra_rpc)]
    ELSE [s |-> s, ret |-> Pending]

\* The swarm polls the RPC behaviour
RpcPoll ==
    LET r == rpc_poll(Self) IN
    /\ Store(r.s, r.ret)
    /\ UNCHANGED <<gs_topics, network_globals>>

\* RPC::send_request called by the owner of the RPC behaviour
RpcSendRequest(peer_id, request_id, event) ==
    /\ Store(rpc_send_request(Self, peer_id, request_id, event), NoCall)
    /\ UNCHANGED <<gs_topics, network_globals>>

\* RPC::send_response called by the owner of the RPC behaviour
RpcSendResponse(peer_id, id, event) ==
    /\ Store(rpc_send_response(Self, peer_id, id, event), NoCall)
    /\ UNCHANGED <<gs_topics, network_globals>>

\* The events a handler of the RPC protocol hands to the behaviour
HandlerEvents ==
    {ReceivedRequest(7, Ping(<<17>>)), ReceivedResponse("42", StatusResponse(<<170>>)),
     Outbound(Behaviour, "Status", "StreamTimeout")}

NextRpc ==
    \/ /\ Room(MaxDisconnectQueued)
       /\ \E p \in PeerIds, i \in RequestIds : RpcSendRequest(p, i, Status(<<17>>))
    \/ /\ Room(MaxDisconnectQueued)
       /\ \E i \in PeerRequestIds : RpcSendResponse("P", i, Success(Pong(<<170>>)))
    \/ /\ Room(MaxDisconnectQueued)
       /\ \E p \in PeerIds : inject_connected(p)
    \/ /\ Room(MaxDisconnectQueued)
       /\ \E e \in HandlerEvents : inject_event("Q", 1, e)
    \/ RpcPoll
    \/ ResultTaken

SpecRpc == Init /\ [][NextRpc]_vars

\* C34: the RPC behaviour's poll returns the oldest queued item and removes that item
\* only, and returns Pending, leaving the queue empty, exactly when the queue is
\* empty; every other operation leaves the queue as it is or appends one item
\* behind those queued, inject_event the GenerateEvent of its RPCMessage. So the
\* items leave in the order they were enqueued.
C34_RpcQueueFifo ==
    [][/\ PollStep =>
            /\ (ret' = Pending) <=> (mothra_rpc = <<>>)
            /\ IF mothra_rpc = <<>>
               THEN mothra_rpc' = <<>>
               ELSE /\ ret' = Head(mothra_rpc)
                    /\ mothra_rpc' = Tail(mothra_rpc)
       /\ ~PollStep =>
            \/ mothra_rpc' = mothra_rpc
            \/ /\ Len(mothra_rpc') = Len(mothra_rpc) + 1
               /\ SubSeq(mothra_rpc', 1, Len(mothra_rpc)) = mothra_rpc
       /\ \A e \in HandlerEvents :
            inject_event("Q", 1, e) =>
                mothra_rpc' = Append(mothra_rpc, GenerateEvent(RPCMessage("Q", 1, e)))]_vars

\* A request, a handler event and a response were enqueued in this order: poll
\* returned the request and the other two are queued in their order.
C34_Witness ==
    /\ ret = NotifyHandler("P", Any, SendRequest("42", Status(<<17>>)))
    /\ Len(mothra_rpc) = 2
    /\ mothra_rpc[1].action = "GenerateEvent"
    /\ mothra_rpc[2].action = "NotifyHandler"
    /\ mothra_rpc[2].event.send = "Response"

-----------------------------------------------------------------------------
(* Claims about single calls of subscribe and unsubscribe, under            *)
(* SpecSubscribe.                                                           *)

\* C35: subscribe(t) leaves the shared subscription set as the prior set with t and
\* unsubscribe(t) as the prior set without t, whatever the engine answers, so that
\* after subscribe(t) the set contains t and after unsubscribe(t) it does not, also
\* when the call returns false; the engine is called with the topic converted and
\* the value returned is the engine's boolean.
C35_SetUpdatedWhateverTheEngineAnswers ==
    [][\A t \in Topics :
          LET prior == network_globals.gossipsub_subscriptions
              after == network_globals'.gossipsub_subscriptions
          IN  /\ subscribe(t) =>
                    /\ t \in after
                    /\ after = prior \cup {t}
                    /\ gs_topics' = gs_subscribe(gs_topics, topic_into(t)).topics
                    /\ ret' = Returned(gs_subscribe(gs_topics, topic_into(t)).ok)
              /\ unsubscribe(t) =>
                    /\ t \notin after
                    /\ after = prior \ {t}
                    /\ gs_topics' = gs_unsubscribe(gs_topics, topic_into(t)).topics
                    /\ ret' = Returned(gs_unsubscribe(gs_topics, topic_into(t)).ok)]_vars

\* The engine answered false while both topics were subscribed, which only a
\* subscribe can get: the set still holds both.
C35_Witness ==
    /\ ret = Returned(FALSE)
    /\ network_globals.gossipsub_subscriptions = Topics

-----------------------------------------------------------------------------
(* SpecWrites: a collaborator that shares the NetworkGlobals writes a new   *)
(* ping payload and new metadata to them while peers send Ping and MetaData *)
(* requests and the peer manager asks for pings.                            *)

\* The value a collaborator writes
Written == <<255>>

\* *network_globals.meta_data.write() or *network_globals.ping_data.write() assigned
\* by a holder of the Arc<NetworkGlobals>
GlobalsWritten(field) ==
    /\ network_globals[field] # Written
    /\ network_globals' = [network_globals EXCEPT ![field] = Written]
    /\ UNCHANGED <<gossipsub, gs_topics, mothra_rpc, identify, peer_manager, events,
                   peers_to_dc, meta_data, ping_data, pm_calls, ret, handed,
                   seen_gossip_messages>>

NextWrites ==
    \/ /\ ret = NoCall
       /\ \E field \in {"meta_data", "ping_data"} : GlobalsWritten(field)
    \/ /\ Room(MaxQueued)
       /\ \E p \in PeerIds, c \in ConnectionIds, r \in {Ping(<<17>>), MetaDataRequest} :
             inject_event(p, c, ReceivedRequest(7, r))
    \/ /\ Room(MaxQueued)
       /\ \E p \in PeerIds : PeerManagerReady(PmEvent("Ping", p))
    \/ Poll
    \/ ResultTaken

SpecWrites == Init /\ [][NextWrites]_vars

\* What the behaviour sends that carries the ping payload or the metadata
CarriesLocalData(action) ==
    /\ action.action = "NotifyHandler"
    /\ IF action.event.send = "Request"
       THEN action.event.request.method = "Ping"
       ELSE action.event.response.response.resp \in {"Pong", "MetaData"}

LocalDataIn(action) ==
    IF action.event.send = "Request"
    THEN action.event.request.data
    ELSE action.event.response.response.data

-----------------------------------------------------------------------------
(* Claims about the StatusPeer event, under SpecEvents.                     *)

\* poll returned a StatusPeer event
ReturnedStatusPeer == ret'.action = "GenerateEvent" /\ ret'.event.kind = "StatusPeer"

\* C37: a StatusPeer event is returned by the poll that consumes the peer manager's
\* Status command and never enters the public event queue: the queue holds no
\* StatusPeer, a poll returns StatusPeer(peer) exactly when it reaches the peer
\* manager and finds Status(peer) first, and that poll leaves the public queue as
\* the queued events followed by the events it appended, none removed and none
\* reordered, also when the queue is not empty.
C37_StatusPeerBypassesQueue ==
    [][/\ \A i \in DOMAIN events' : events'[i].kind # "StatusPeer"
       /\ PollStep =>
            /\ ReturnedStatusPeer <=>
                  /\ ReachesCustomPoll
                  /\ PendingAtCustomPoll = <<>>
                  /\ peer_manager # <<>>
                  /\ Head(peer_manager).pm = "Status"
            /\ ReturnedStatusPeer =>
                  /\ ret'.event = StatusPeer(Head(peer_manager).arg)
                  /\ peer_manager' = Tail(peer_manager)
                  /\ events' = events \o Owed]_vars

\* poll returned StatusPeer while two events appended earlier are still queued, in
\* the order of their causes.
C37_Witness ==
    /\ ret = GenerateEvent(StatusPeer("Q"))
    /\ Len(events) = 2
    /\ events[1].kind = "PubsubMessage"
    /\ events[2].kind = "RequestReceived"

-----------------------------------------------------------------------------
(* SpecSentinel: the application sends requests under its own id and under  *)
(* RequestId::Behaviour, and the peers' handlers report the responses to    *)
(* them and their failures.                                                 *)

NextSentinel ==
    \/ /\ Room(MaxQueued)
       /\ \E p \in PeerIds, i \in RequestIds, r \in {RequestStatus(<<17>>), RequestGoodbye(<<170>>)} :
             send_request(p, i, r)
    \/ /\ Room(MaxQueued)
       /\ \E p \in PeerIds, i \in RequestIds :
             inject_event(p, 1, ReceivedResponse(i, StatusResponse(<<170>>)))
    \/ /\ Room(MaxQueued)
       /\ \E p \in PeerIds, i \in RequestIds :
             inject_event(p, 2, Outbound(i, "Status", "StreamTimeout"))
    \/ Poll
    \/ ResultTaken

SpecSentinel == Init /\ [][NextSentinel]_vars

\* A response or an outbound failure reported for a request with the given id
IsReplyTo(id, message) ==
    IF message.event.ok
    THEN message.event.received = "Response" /\ message.event.id = id
    ELSE message.event.dir = "Outbound" /\ message.event.id = id

IsReplyToApplication(message) == IsReplyTo("42", message)
IsReplyToSentinel(message) == IsReplyTo(Behaviour, message)

\* C38: send_request makes no test of the RequestId: with RequestId::Behaviour as
\* with any other id it appends NotifyHandler{peer, Any, Request(id, request)} to the
\* RPC queue, changes nothing else and reports no error, and poll hands that request
\* on unchanged; and a poll appends one public event for each response or failure it
\* dispatched that carries an application id and none for those that carry
\* RequestId::Behaviour, which reach the peer manager only.
C38_SentinelAcceptedAndSilent ==
    [][/\ \A p \in PeerIds, i \in RequestIds,
             r \in {RequestStatus(<<17>>), RequestGoodbye(<<170>>)} :
             send_request(p, i, r) =>
                /\ mothra_rpc'
                      = Append(mothra_rpc, NotifyHandler(p, Any, SendRequest(i, RPCRequest_from(r))))
                /\ ret' = NoCall
                /\ events' = events
       /\ PollStep =>
            /\ Behind # <<>> =>
                  ret' = NotifyHandler(Head(Behind).peer_id, Any,
                                       Delegate("RPC", Head(Behind).event))
            /\ Len(Appended) = Len(SelectSeq(Dispatched, IsReplyToApplication))
            /\ \A k \in DOMAIN Appended : Appended[k].id = "42"
            /\ Len(pm_calls') = Len(Dispatched)
            /\ events = <<>> /\ SelectSeq(Dispatched, IsReplyToApplication) = <<>> =>
                  ret'.action # "GenerateEvent"]_vars

\* poll handed on the request the application sent to P under RequestId::Behaviour,
\* as any other request, while P's response to that id waits in the RPC queue.
C38_Witness ==
    /\ ret = NotifyHandler("P", Any, Delegate("RPC", SendRequest(Behaviour, Status(<<17>>))))
    /\ mothra_rpc
          = <<GenerateEvent(RPCMessage("P", 1, ReceivedResponse(Behaviour, StatusResponse(<<170>>))))>>

-----------------------------------------------------------------------------
(* SpecWrapper: the older composite of libp2p-wrapper/src/behaviour.rs,     *)
(* whose sub-behaviours hand it their events one by one. It has the fields  *)
(* events and seen_gossip_messages, which it alone uses; the cache is kept  *)
(* small enough here for ids to be evicted.                                 *)

\* The capacity of seen_gossip_messages
SeenCapacity == 2

WrapperMessageIds == {"m1", "m2", "m3"}

\* BehaviourEvent of the older composite
GossipMessage(id, source, topics, message) ==
    [kind |-> "GossipMessage", message_id |-> id, source |-> source,
     topics |-> topics, message |-> message]
PeerDialed(peer_id) == [kind |-> "PeerDialed", peer_id |-> peer_id]

\* Async::NotReady
NotReady == [action |-> "NotReady"]

WrapperSelf == [events |-> events, seen_gossip_messages |-> seen_gossip_messages]

\* LruCache::put: the key becomes the most recently used, the least recently used
\* key is evicted when a new key finds the cache full, and the answer tells whether
\* the key was there
lru_put(cache, key) ==
    LET Other(k) == k # key
        present == \E i \in DOMAIN cache : cache[i] = key
        kept == IF present THEN SelectSeq(cache, Other)
                ELSE IF Len(cache) >= SeenCapacity
                     THEN SubSeq(cache, Len(cache) - SeenCapacity + 2, Len(cache))
                     ELSE cache
    IN  [cache |-> Append(kept, key), is_none |-> ~present]

\* An inject_event that forwards every gossip message
wrapper_inject_event_forwarding(s, event) ==
    CASE event.gs = "Message" ->
            [s EXCEPT !.seen_gossip_messages = lru_put(@, event.message_id).cache,
                      !.events = Append(@, GossipMessage(event.message_id, event.source,
                                                         event.topics, event.data))]
      [] event.gs = "Subscribed" ->
            [s EXCEPT !.events = Append(@, PeerSubscribed(event.peer_id, event.topic))]
      [] OTHER -> s

\* NetworkBehaviourEventProcess<GossipsubEvent>::inject_event of the older composite
wrapper_inject_event(s, event) ==
    CASE event.gs = "Message" ->
            LET r == lru_put(s.seen_gossip_messages, event.message_id) IN
            IF r.is_none
            THEN [s EXCEPT !.seen_gossip_messages = r.cache,
                           !.events = Append(@, GossipMessage(event.message_id, event.source,
                                                              event.topics, event.data))]
            ELSE [s EXCEPT !.seen_gossip_messages = r.cache]
      [] event.gs = "Subscribed" ->
            [s EXCEPT !.events = Append(@, PeerSubscribed(event.peer_id, event.topic))]
      [] OTHER -> s

\* NetworkBehaviourEventProcess<RPCMessage>::inject_event, for RPCMessage::PeerDialed
wrapper_inject_rpc_event(s, peer_id) == [s EXCEPT !.events = Append(@, PeerDialed(peer_id))]

\* Behaviour::poll of the older composite
wrapper_poll(s) ==
    IF s.events # <<>>
    THEN [s |-> [s EXCEPT !.events = Tail(@)], ret |-> GenerateEvent(Head(s.events))]
    ELSE [s |-> s, ret |-> NotReady]

\* The struct of the older composite written back after a call that returned r
WrapperStore(s, r) ==
    /\ events' = s.events
    /\ seen_gossip_messages' = s.seen_gossip_messages
    /\ ret' = r
    /\ pm_calls' = <<>>
    /\ UNCHANGED <<gossipsub, gs_topics, mothra_rpc, identify, peer_manager, peers_to_dc,
                   meta_data, ping_data, network_globals, handed>>

WrapperInjectEvent(event) == WrapperStore(wrapper_inject_event(WrapperSelf, event), NoCall)

WrapperInjectRpcEvent(peer_id) ==
    WrapperStore(wrapper_inject_rpc_event(WrapperSelf, peer_id), NoCall)

WrapperPoll ==
    LET r == wrapper_poll(WrapperSelf) IN WrapperStore(r.s, r.ret)

\* The gossip messages peers deliver: each id from either peer
WrapperMessages ==
    {GsMessage(p, m, <<topic_into("blocks")>>, <<17>>) : p \in PeerIds, m \in WrapperMessageIds}

NextWrapper ==
    \/ /\ ret = NoCall /\ Len(events) < MaxEventsQueued
       /\ \E e \in WrapperMessages : WrapperInjectEvent(e)
    \/ /\ ret = NoCall /\ Len(events) < MaxEventsQueued
       /\ \E e \in {GsSubscribed("Q", topic_into("blocks")),
                    GsUnsubscribed("Q", topic_into("blocks"))} : WrapperInjectEvent(e)
    \/ /\ ret = NoCall /\ Len(events) < MaxEventsQueued
       /\ WrapperInjectRpcEvent("P")
    \/ /\ ret = NoCall
       /\ WrapperPoll
    \/ ResultTaken

SpecWrapper == Init /\ [][NextWrapper]_vars

\* The ids held in the seen cache
Seen == {seen_gossip_messages[i] : i \in DOMAIN seen_gossip_messages}

\* C39: in the older composite a gossip Message whose id is not in the seen cache
\* appends exactly one GossipMessage event, with the message's id, source, topics and
\* data, and a Message whose id is in the cache appends nothing; either way the id is
\* in the cache afterwards. Its poll returns the oldest queued event and removes that
\* event only, and returns NotReady exactly when the queue is empty; no other step
\* removes or reorders queued events.
C39_WrapperSurfacesOncePerCachedId ==
    [][/\ \A e \in WrapperMessages :
             WrapperInjectEvent(e) =>
                /\ e.message_id \in Seen'
                /\ Cardinality(Seen') <= SeenCapacity
                /\ IF e.message_id \in Seen
                   THEN events' = events
                   ELSE events' = Append(events, GossipMessage(e.message_id, e.source,
                                                               e.topics, e.data))
       /\ PollStep =>
             /\ (ret' = NotReady) <=> (events = <<>>)
             /\ IF events = <<>>
                THEN events' = <<>>
                ELSE ret' = GenerateEvent(Head(events)) /\ events' = Tail(events)
             /\ seen_gossip_messages' = seen_gossip_messages
       /\ ~PollStep =>
             \/ events' = events
             \/ /\ Len(events') = Len(events) + 1
                /\ SubSeq(events', 1, Len(events)) = events]_vars

\* m1 and m2 were surfaced in this order and m1 then arrived again: it is the most
\* recently used id of the cache and was not surfaced a second time.
C39_Witness ==
    /\ events = <<GossipMessage("m1", "P", <<topic_into("blocks")>>, <<17>>),
                  GossipMessage("m2", "P", <<topic_into("blocks")>>, <<17>>)>>
    /\ seen_gossip_messages = <<"m2", "m1">>

=============================================================================
